---- MODULE Spec2Model ----
(***************************************************************************)
(* A model of the TOS4-HMAC-SHA256 request signer (src/src/signer.ts) and  *)
(* of the TOSClient operations that call it (src/src/client.ts).           *)
(*                                                                         *)
(* JavaScript strings are TLA+ strings (sequences of UTF-16 code units);   *)
(* an ArrayBuffer is a sequence of bytes 0..255.  The Web Crypto engine is *)
(* modelled as an ideal hash: every distinct (algorithm, key, data) query  *)
(* gets its own 32-byte digest, and the same query always gets the same    *)
(* digest (variable oracle).                                               *)
(***************************************************************************)
EXTENDS Integers, Sequences, FiniteSets, TLC

VARIABLES
    now,      \* the wall clock read by `new Date()`
    oracle,   \* the queries the crypto engine has answered, in order
    calls,    \* every signTOSRequest invocation so far, with its outcome
    console,  \* the lines written by console.log
    client,   \* the options object the TOSClient was constructed with
    ops,      \* every TOSClient operation so far, with its outcome
    http,     \* every HTTP request issued by fetch
    inflight, \* the signTOSRequest invocations begun step by step, each with
              \* its locals and the await it is suspended at
    listing,  \* a ListObjects response body and what the client reads in it
    script    \* the run of update-tos-cache-control.ts: its locals and the
              \* statement it is at

vars == <<now, oracle, calls, console, client, ops, http, inflight, listing, script>>

(***************************************************************************)
(* Bounds of the model.                                                    *)
(***************************************************************************)
\* The signTOSRequest invocations of a run, and the TOSClient operations among
\* its steps.
MaxCalls == 2
MaxOps == 1

(***************************************************************************)
(* Strings.                                                                *)
(***************************************************************************)
At(s, i) == SubSeq(s, i, i)

\* The printable ASCII characters in code order: U+0020 .. U+005F and
\* U+0061 .. U+007E (U+0060 cannot be written in a TLA+ string).
PrintableLow == " !\"#$%&'()*+,-./0123456789:;<=>?@ABCDEFGHIJKLMNOPQRSTUVWXYZ[\\]^_"
PrintableHigh == "abcdefghijklmnopqrstuvwxyz{|}~"

\* The other characters the model's inputs use, with their code units.
OtherChars == << <<"\t", 9>>, <<"\n", 10>>, <<"\r", 13>>, <<"é", 233>>,
                 <<"件", 20214>>, <<"文", 25991>> >>

IndexIn(s, c) == CHOOSE i \in 1..Len(s) : At(s, i) = c
Occurs(s, c) == \E i \in 1..Len(s) : At(s, i) = c

Alphabet == {At(PrintableLow, i) : i \in 1..Len(PrintableLow)}
                \cup {At(PrintableHigh, i) : i \in 1..Len(PrintableHigh)}
                \cup {OtherChars[i][1] : i \in 1..Len(OtherChars)}

\* String.prototype.charCodeAt: the UTF-16 code unit of a character.
CodeUnit == [c \in Alphabet |->
                IF Occurs(PrintableLow, c) THEN 31 + IndexIn(PrintableLow, c)
                ELSE IF Occurs(PrintableHigh, c) THEN 96 + IndexIn(PrintableHigh, c)
                ELSE OtherChars[CHOOSE i \in 1..Len(OtherChars) : OtherChars[i][1] = c][2]]

\* The UTF-8 bytes of one character of the Basic Multilingual Plane.
Utf8Char(c) ==
    LET u == CodeUnit[c]
    IN  IF u < 128 THEN <<u>>
        ELSE IF u < 2048 THEN <<192 + (u \div 64), 128 + (u % 64)>>
        ELSE <<224 + (u \div 4096), 128 + ((u \div 64) % 64), 128 + (u % 64)>>

RECURSIVE EncodeRange(_, _, _)
\* The UTF-8 bytes of the characters lo..hi of s, by halves
EncodeRange(s, lo, hi) ==
    IF lo > hi THEN <<>>
    ELSE IF lo = hi THEN Utf8Char(At(s, lo))
    ELSE LET mid == (lo + hi) \div 2
         IN  EncodeRange(s, lo, mid) \o EncodeRange(s, mid + 1, hi)

\* new TextEncoder().encode(s)
TextEncode(s) ==
    IF \A i \in 1..Len(s) : CodeUnit[At(s, i)] < 128
    THEN [i \in 1..Len(s) |-> CodeUnit[At(s, i)]]
    ELSE EncodeRange(s, 1, Len(s))

RECURSIVE Join(_, _)
\* Array.prototype.join
Join(parts, sep) ==
    IF Len(parts) = 0 THEN ""
    ELSE IF Len(parts) = 1 THEN parts[1]
    ELSE parts[1] \o sep \o Join(Tail(parts), sep)

RECURSIVE PadStart(_, _, _)
\* String.prototype.padStart with a one-character filler
PadStart(s, n, fill) ==
    IF Len(s) >= n THEN s ELSE PadStart(fill \o s, n, fill)

RECURSIVE ReplaceFrom(_, _, _, _)
ReplaceFrom(s, pat, rep, i) ==
    IF i + Len(pat) - 1 > Len(s) THEN SubSeq(s, i, Len(s))
    ELSE IF SubSeq(s, i, i + Len(pat) - 1) = pat
         THEN rep \o ReplaceFrom(s, pat, rep, i + Len(pat))
         ELSE At(s, i) \o ReplaceFrom(s, pat, rep, i + 1)

\* String.prototype.replace with a global pattern matching the literal pat
ReplaceAll(s, pat, rep) ==
    IF \E i \in 1..(Len(s) - Len(pat) + 1) : SubSeq(s, i, i + Len(pat) - 1) = pat
    THEN ReplaceFrom(s, pat, rep, 1)
    ELSE s

HexDigitsLower == "0123456789abcdef"
HexDigitsUpper == "0123456789ABCDEF"

RECURSIVE ToRadix16(_, _)
ToRadix16(n, digits) ==
    IF n < 16 THEN At(digits, n + 1)
    ELSE ToRadix16(n \div 16, digits) \o At(digits, (n % 16) + 1)

\* Number.prototype.toString(16)
ToString16(n) == ToRadix16(n, HexDigitsLower)

(***************************************************************************)
(* Optional values (an absent property reads as undefined) and the         *)
(* JavaScript values hmacSha256 can be handed as its key.                  *)
(***************************************************************************)
None == <<>>
Some(v) == <<v>>
IsSome(o) == o # <<>>
OrElse(o, d) == IF o = <<>> THEN d ELSE o[1]

JsUndefined == [type |-> "undefined", str |-> "", buf |-> <<>>]
JsString(s) == [type |-> "string", str |-> s, buf |-> <<>>]
JsBuffer(b) == [type |-> "object", str |-> "", buf |-> b]
OptString(o) == IF o = <<>> THEN JsUndefined ELSE JsString(o[1])

(***************************************************************************)
(* Date: an instant is a day number since 1970-01-01 and the milliseconds  *)
(* elapsed in that UTC day.                                                *)
(***************************************************************************)
MsPerDay == 24 * 60 * 60 * 1000

AddMs(d, n) ==
    [day |-> d.day + ((d.ms + n) \div MsPerDay), ms |-> (d.ms + n) % MsPerDay]

\* The proleptic Gregorian civil date of a day number: year, month (1..12)
\* and day of the month.
CivilFromDays(day) ==
    LET z   == day + 719468
        era == z \div 146097
        doe == z - era * 146097
        yoe == (doe - (doe \div 1460) + (doe \div 36524) - (doe \div 146096)) \div 365
        doy == doe - (365 * yoe + (yoe \div 4) - (yoe \div 100))
        mp  == (5 * doy + 2) \div 153
        m   == IF mp < 10 THEN mp + 3 ELSE mp - 9
    IN  [year  |-> yoe + era * 400 + (IF m <= 2 THEN 1 ELSE 0),
         month |-> m,
         date  |-> doy - ((153 * mp + 2) \div 5) + 1]

getUTCFullYear(d) == CivilFromDays(d.day).year
\* getUTCMonth counts from 0
getUTCMonth(d) == CivilFromDays(d.day).month - 1
getUTCDate(d) == CivilFromDays(d.day).date
getUTCHours(d) == d.ms \div 3600000
getUTCMinutes(d) == (d.ms \div 60000) % 60
\* Faulty variant of getUTCSeconds: the minutes read in place of the seconds.
getUTCSecondsFromMinutes(d) == (d.ms \div 60000) % 60

getUTCSeconds(d) == (d.ms \div 1000) % 60

\* The String(n).padStart(2, '0') of formatDate
Pad2(n) == PadStart(ToString(n), 2, "0")

formatDate(date) ==
    LET year    == getUTCFullYear(date)
        month   == Pad2(getUTCMonth(date) + 1)
        day     == Pad2(getUTCDate(date))
        hours   == Pad2(getUTCHours(date))
        minutes == Pad2(getUTCMinutes(date))
        seconds == Pad2(getUTCSeconds(date))
    IN  [short |-> ToString(year) \o month \o day,
         long  |-> ToString(year) \o month \o day \o "T" \o hours \o minutes \o seconds \o "Z"]

(***************************************************************************)
(* URI encoding.                                                           *)
(***************************************************************************)
\* The characters encodeURIComponent leaves as they are.
UriUnescaped ==
    LET chars == "ABCDEFGHIJKLMNOPQRSTUVWXYZabcdefghijklmnopqrstuvwxyz0123456789-_.!~*'()"
    IN  {At(chars, i) : i \in 1..Len(chars)}

RECURSIVE PercentBytes(_)
PercentBytes(bytes) ==
    IF bytes = <<>> THEN ""
    ELSE "%" \o PadStart(ToRadix16(Head(bytes), HexDigitsUpper), 2, "0")
             \o PercentBytes(Tail(bytes))

RECURSIVE EncodeComponentFrom(_, _)
EncodeComponentFrom(s, i) ==
    IF i > Len(s) THEN ""
    ELSE (IF At(s, i) \in UriUnescaped THEN At(s, i)
          ELSE PercentBytes(Utf8Char(At(s, i))))
         \o EncodeComponentFrom(s, i + 1)

\* encodeURIComponent of a well-formed string
encodeURIComponent(s) == EncodeComponentFrom(s, 1)

\* Faulty variant of uriEncode: encodeURIComponent and nothing more.
uriEncodeComponentOnly(str, encodeSlash) == encodeURIComponent(str)

uriEncode(str, encodeSlash) ==
    LET r0 == encodeURIComponent(str)
        r1 == ReplaceAll(r0, "!", "%21")
        r2 == ReplaceAll(r1, "'", "%27")
        r3 == ReplaceAll(r2, "(", "%28")
        r4 == ReplaceAll(r3, ")", "%29")
        r5 == ReplaceAll(r4, "*", "%2A")
    IN  IF ~encodeSlash THEN ReplaceAll(r5, "%2F", "/") ELSE r5

(***************************************************************************)
(* ArrayBuffer to hexadecimal text.                                        *)
(***************************************************************************)
RECURSIVE bufferToHex(_)
bufferToHex(buffer) ==
    IF buffer = <<>> THEN ""
    ELSE PadStart(ToString16(Head(buffer)), 2, "0") \o bufferToHex(Tail(buffer))

(***************************************************************************)
(* The Web Crypto engine as an ideal hash.  A query is the algorithm, the  *)
(* raw key (empty for a plain digest) and the data; its digest is decided  *)
(* by the position of the query among the queries answered so far, so that *)
(* equal queries get equal digests and different queries different ones.   *)
(***************************************************************************)
DigestLength == 32

Ask(orc, q) ==
    IF \E i \in 1..Len(orc) : orc[i] = q THEN orc ELSE Append(orc, q)

DigestBytes(idx) ==
    [j \in 1..DigestLength |->
        IF j = DigestLength THEN idx % 256
        ELSE IF j = DigestLength - 1 THEN (idx \div 256) % 256
        ELSE (7 * j) % 256]

Answer(orc, q) == DigestBytes(CHOOSE i \in 1..Len(orc) : orc[i] = q)

\* crypto.subtle.digest('SHA-256', data)
subtleDigest(data, orc) ==
    LET q == [alg |-> "SHA-256", key |-> <<>>, data |-> data]
        o == Ask(orc, q)
    IN  [value |-> Answer(o, q), oracle |-> o]

\* crypto.subtle.importKey('raw', keyData, {name: 'HMAC', hash: 'SHA-256'}, ...):
\* the error it throws, or "" when it returns a key.
importKeyError(keyData) ==
    IF keyData.type # "object" THEN "TypeError"
    ELSE IF Len(keyData.buf) = 0 THEN "DataError"
    ELSE ""

\* Faulty variant of KeyData: a string key handed to importKey unencoded.
KeyDataUnencoded(key) == key

\* The keyData of hmacSha256: a string key is UTF-8 encoded, any other value
\* is handed on as it is.
KeyData(key) ==
    IF key.type = "string" THEN JsBuffer(TextEncode(key.str)) ELSE key

hmacSha256(key, data, orc) ==
    LET keyData == KeyData(key)
        err     == importKeyError(keyData)
        q       == [alg |-> "HMAC", key |-> keyData.buf, data |-> TextEncode(data)]
        o       == Ask(orc, q)
    IN  IF err # ""
        THEN [ok |-> FALSE, error |-> err, value |-> <<>>, oracle |-> orc]
        ELSE [ok |-> TRUE, error |-> "", value |-> Answer(o, q), oracle |-> o]

(***************************************************************************)
(* The Headers class of the Fetch standard: names are case-insensitive,    *)
(* a value is a byte string, stored without its leading and trailing HTTP  *)
(* whitespace, and may not contain a line break.                           *)
(***************************************************************************)
UpperLetters == "ABCDEFGHIJKLMNOPQRSTUVWXYZ"
LowerLetters == "abcdefghijklmnopqrstuvwxyz"

\* The lower-case form of a character: only A .. Z have another one
LowerOf == [c \in Alphabet |->
               IF Occurs(UpperLetters, c)
               THEN At(LowerLetters, IndexIn(UpperLetters, c))
               ELSE c]

RECURSIVE LowerFrom(_, _)
LowerFrom(s, i) ==
    IF i > Len(s) THEN ""
    ELSE LowerOf[At(s, i)] \o LowerFrom(s, i + 1)

LowerCase(s) == LowerFrom(s, 1)

HttpWhitespace == "\t\n\r "

RECURSIVE StripLeading(_)
StripLeading(v) ==
    IF Len(v) > 0 /\ Occurs(HttpWhitespace, At(v, 1))
    THEN StripLeading(SubSeq(v, 2, Len(v))) ELSE v

RECURSIVE StripTrailing(_)
StripTrailing(v) ==
    IF Len(v) > 0 /\ Occurs(HttpWhitespace, At(v, Len(v)))
    THEN StripTrailing(SubSeq(v, 1, Len(v) - 1)) ELSE v

NormalizeValue(v) == StripTrailing(StripLeading(v))

\* The characters a ByteString may hold
Latin1 == {c \in Alphabet : CodeUnit[c] <= 255}

IsByteString(v) == \A i \in 1..Len(v) : At(v, i) \in Latin1

HeaderValueOk(v) ==
    /\ IsByteString(v)
    /\ LET n == NormalizeValue(v)
       IN  \A i \in 1..Len(n) : At(n, i) \notin {"\n", "\r"}

EmptyHeaders == [n \in {} |-> ""]

\* Headers.prototype.set, for a value it accepts
HeadersSet(h, name, value) ==
    LET lower == LowerCase(name)
        v     == NormalizeValue(value)
    IN  [n \in DOMAIN h \cup {lower} |-> IF n = lower THEN v ELSE h[n]]

\* Headers.prototype.get; null is modelled as None
HeadersGet(h, name) ==
    LET lower == LowerCase(name)
    IN  IF lower \in DOMAIN h THEN Some(h[lower]) ELSE None

RECURSIVE SetAll(_, _)
\* A run of headers.set calls: stops at the first value Headers rejects.
SetAll(h, entries) ==
    IF entries = <<>> THEN [ok |-> TRUE, headers |-> h]
    ELSE IF ~HeaderValueOk(entries[1][2]) THEN [ok |-> FALSE, headers |-> h]
    ELSE SetAll(HeadersSet(h, entries[1][1], entries[1][2]), Tail(entries))

(***************************************************************************)
(* signTOSRequest.  The options object is a record; its optional           *)
(* properties are None when absent.  accessKeySecret and queryString are   *)
(* properties callers pass that the signer never reads.  The result records the locals of the *)
(* call along with its outcome.                                            *)
(***************************************************************************)
\* Faulty variant of SigningDate: the clock read even when a date is given.
SigningDateAlwaysNow(options, clock) == clock

\* Faulty variant of SigningDate: a call with debug output signs the clock.
SigningDateDebugNow(options, clock) ==
    IF OrElse(options.debug, FALSE) THEN clock ELSE OrElse(options.date, clock)

\* The date the call signs with: options.date, by default new Date()
SigningDate(options, clock) == OrElse(options.date, clock)

\* const host = ...: the virtual-hosted name of the bucket
\* (HostPathStyle is a faulty variant that leaves the bucket out).
HostPathStyle(bucket, endpoint) == endpoint

Host(bucket, endpoint) == bucket \o "." \o endpoint

\* Faulty variant of PayloadHash: no sentinel for an absent hash.
PayloadHashOrEmpty(contentSha256) == OrElse(contentSha256, "")

\* contentSha256 || 'UNSIGNED-PAYLOAD'
PayloadHash(contentSha256) ==
    IF contentSha256 = None \/ contentSha256[1] = ""
    THEN "UNSIGNED-PAYLOAD" ELSE contentSha256[1]

CanonicalHeaders(host, payloadHash, longDate) ==
    Join(<< "host:" \o host,
            "x-tos-content-sha256:" \o payloadHash,
            "x-tos-date:" \o longDate >>, "\n")

CanonicalRequest(method, uri, canonicalHeaders, signedHeaders, payloadHash) ==
    Join(<<method, uri, "", canonicalHeaders, "", signedHeaders, payloadHash>>, "\n")

\* Faulty variant of CredentialScope: region and date in the wrong order.
CredentialScopeRegionFirst(shortDate, region) ==
    region \o "/" \o shortDate \o "/tos/request"

CredentialScope(shortDate, region) == shortDate \o "/" \o region \o "/tos/request"

\* Faulty variant of StringToSign: the scope ahead of the timestamp.
StringToSignScopeFirst(longDate, credentialScope, canonicalRequestHashHex) ==
    Join(<<"TOS4-HMAC-SHA256", credentialScope, longDate, canonicalRequestHashHex>>, "\n")

StringToSign(longDate, credentialScope, canonicalRequestHashHex) ==
    Join(<<"TOS4-HMAC-SHA256", longDate, credentialScope, canonicalRequestHashHex>>, "\n")

\* Faulty variant of Authorization: the algorithm tag of another service.
AuthorizationAws4(accessKeyId, credentialScope, signedHeaders, signatureHex) ==
    "AWS4-HMAC-SHA256 Credential=" \o accessKeyId \o "/" \o credentialScope
        \o ", SignedHeaders=" \o signedHeaders \o ", Signature=" \o signatureHex

Authorization(accessKeyId, credentialScope, signedHeaders, signatureHex) ==
    "TOS4-HMAC-SHA256 Credential=" \o accessKeyId \o "/" \o credentialScope
        \o ", SignedHeaders=" \o signedHeaders \o ", Signature=" \o signatureHex

\* Faulty variant of SignedEntries: Content-Type is not set.
SignedEntriesNoContentType(host, longDate, payloadHash, authorization, contentType) ==
    << <<"Host", host>>,
       <<"X-Tos-Date", longDate>>,
       <<"X-Tos-Content-Sha256", payloadHash>>,
       <<"Authorization", authorization>> >>

\* The headers.set calls of the signer, in order
SignedEntries(host, longDate, payloadHash, authorization, contentType) ==
    << <<"Host", host>>,
       <<"X-Tos-Date", longDate>>,
       <<"X-Tos-Content-Sha256", payloadHash>>,
       <<"Authorization", authorization>>,
       <<"Content-Type", contentType>> >>

\* Faulty variant of DebugLine: the secret printed along with the text.
DebugLineWithSecret(options, label, text) ==
    IF OrElse(options.debug, FALSE)
    THEN <<label \o " " \o text \o " " \o OrElse(options.secretAccessKey, "undefined")>>
    ELSE <<>>

\* if (debug) { console.log(label, text) }: the line written, if any
DebugLine(options, label, text) ==
    IF OrElse(options.debug, FALSE) THEN <<label \o " " \o text>> ELSE <<>>

\* One more link of the key chain: the previous HMAC output, as raw bytes,
\* is the key of the next HMAC; a step that threw ends the chain.
\* (hmacStepHexKey is a faulty variant that hands on the hexadecimal text.)
hmacStepHexKey(prev, data) ==
    IF ~prev.ok THEN prev
    ELSE hmacSha256(JsString(bufferToHex(prev.value)), data, prev.oracle)

hmacStep(prev, data) ==
    IF ~prev.ok THEN prev
    ELSE hmacSha256(JsBuffer(prev.value), data, prev.oracle)

\* kDate, kRegion, kService, kSigning and the signature (signer.ts 159-163)
SignatureOf(secretAccessKey, shortDate, region, stringToSign, orc) ==
    hmacStep(
        hmacStep(
            hmacStep(
                hmacStep(hmacSha256(secretAccessKey, shortDate, orc), region),
                "tos"),
            "request"),
        stringToSign)

\* The rest of the call once the signature is computed (signer.ts 164-181).
\* p holds the locals computed before the key chain.
SignFinish(p, signature) ==
    LET signatureHex == bufferToHex(signature.value)
        log3 == DebugLine(p.options, "[TOS Signer] Signature:", signatureHex)
        authorization ==
            Authorization(p.options.accessKeyId, p.credentialScope,
                          p.signedHeaders, signatureHex)
        set == SetAll(EmptyHeaders,
                   SignedEntries(p.host, p.dates.long, p.payloadHash,
                                 authorization, p.contentType))
        base == [options          |-> p.options,
                 date             |-> p.date,
                 canonicalRequest |-> p.canonicalRequest,
                 stringToSign     |-> p.stringToSign,
                 credentialScope  |-> p.credentialScope,
                 kDateKey         |-> KeyData(OptString(p.options.secretAccessKey))]
    IN  IF ~signature.ok
        THEN base @@ [status       |-> "rejected",
                      error        |-> signature.error,
                      signatureHex |-> "",
                      headers      |-> EmptyHeaders,
                      logs         |-> p.logs,
                      oracle       |-> signature.oracle]
        ELSE IF ~set.ok
        THEN base @@ [status       |-> "rejected",
                      error        |-> "TypeError",
                      signatureHex |-> signatureHex,
                      headers      |-> EmptyHeaders,
                      logs         |-> p.logs \o log3,
                      oracle       |-> signature.oracle]
        ELSE base @@ [status       |-> "resolved",
                      error        |-> "",
                      signatureHex |-> signatureHex,
                      headers      |-> set.headers,
                      logs         |-> p.logs \o log3,
                      oracle       |-> signature.oracle]

\* The locals after the digest of the canonical request (signer.ts 143-156)
Scoped(p, canonicalRequestHash) ==
    LET canonicalRequestHashHex == bufferToHex(canonicalRequestHash.value)
        credentialScope == CredentialScope(p.dates.short, p.options.region)
        stringToSign ==
            StringToSign(p.dates.long, credentialScope, canonicalRequestHashHex)
        log2 == DebugLine(p.options, "[TOS Signer] String to Sign:", stringToSign)
    IN  p @@ [credentialScope |-> credentialScope,
              stringToSign    |-> stringToSign,
              logs            |-> p.log1 \o log2]

\* The key chain and what follows it (signer.ts 159-181)
SignScoped(p, orc) ==
    SignFinish(p, SignatureOf(OptString(p.options.secretAccessKey), p.dates.short,
                              p.options.region, p.stringToSign, orc))

\* The call from the digest of the canonical request on (signer.ts 139-181).
SignHashed(p, canonicalRequestHash) ==
    SignScoped(Scoped(p, canonicalRequestHash), canonicalRequestHash.oracle)

\* The locals computed before the first await (signer.ts 94-136)
Prepared(options, clock) ==
    LET contentType   == OrElse(options.contentType, "application/octet-stream")
        date          == SigningDate(options, clock)
        dates         == formatDate(date)
        host          == Host(options.bucket, options.endpoint)
        uri           == "/" \o uriEncode(options.key, FALSE)
        payloadHash   == PayloadHash(options.contentSha256)
        signedHeaders == "host;x-tos-content-sha256;x-tos-date"
        canonicalRequest ==
            CanonicalRequest(options.method, uri,
                             CanonicalHeaders(host, payloadHash, dates.long),
                             signedHeaders, payloadHash)
        log1 == DebugLine(options, "[TOS Signer] Canonical Request:", canonicalRequest)
    IN  [options          |-> options,
         contentType      |-> contentType,
         date             |-> date,
         dates            |-> dates,
         host             |-> host,
         payloadHash      |-> payloadHash,
         signedHeaders    |-> signedHeaders,
         canonicalRequest |-> canonicalRequest,
         log1             |-> log1]

\* The call from its first await on (signer.ts 139-181)
SignPrepared(p, orc) ==
    SignHashed(p, subtleDigest(TextEncode(p.canonicalRequest), orc))

signTOSRequest(options, clock, orc) == SignPrepared(Prepared(options, clock), orc)

(***************************************************************************)
(* The inputs of the model.                                                *)
(***************************************************************************)
\* 2025-01-01T00:00:00.000Z, one second later, and 0999-12-31T23:59:59.000Z
NewYear2025 == [day |-> 20089, ms |-> 0]
NewYear2025Plus1s == [day |-> 20089, ms |-> 1000]
EndOfYear999 == [day |-> -354286, ms |-> 86399000]

\* The clock runs from one second before 2025-01-01T00:00:00Z to that instant.
StartInstant == [day |-> 20088, ms |-> 86399000]
LastInstant == NewYear2025

\* A fully specified signing request, after the signer test's options.
BaseOptions ==
    [method          |-> "PUT",
     bucket          |-> "test-bucket",
     key             |-> "test-file.txt",
     region          |-> "cn-beijing",
     endpoint        |-> "tos-cn-beijing.volces.com",
     accessKeyId     |-> "test-access-key",
     secretAccessKey |-> Some("test-secret-key"),
     accessKeySecret |-> None,
     queryString     |-> None,
     customHeaders   |-> None,
     contentType     |-> Some("text/plain"),
     contentSha256   |-> Some("test-sha256"),
     date            |-> Some(NewYear2025),
     debug           |-> None]

\* The option object of the signer test: the secret is passed as
\* accessKeySecret, and no date is given.
TestOptions ==
    [BaseOptions EXCEPT !.secretAccessKey = None,
                        !.accessKeySecret = Some("test-secret-key"),
                        !.date = None]

\* A bucket-level request that leaves contentType and contentSha256 to their
\* defaults and carries the query string TOSClient.list passes for a listing
\* by prefix.
BucketRootOptions ==
    [BaseOptions EXCEPT !.method = "GET", !.key = "",
                        !.queryString = Some("list-type=2&prefix=a"),
                        !.contentType = None, !.contentSha256 = None]

\* A request that differs from BaseOptions in every property a caller
\* chooses freely: a non-ASCII method, a key with reserved and non-ASCII
\* characters, empty strings for the optional texts.
OtherOptions ==
    [BaseOptions EXCEPT !.method = "RéSUMé",
                        !.bucket = "other-bucket",
                        !.key = "path/to/文件 (1)!'*~?#%.txt",
                        !.region = "cn-shanghai",
                        !.endpoint = "tos-cn-shanghai.volces.com",
                        !.accessKeyId = "other-access-key",
                        !.secretAccessKey = Some("other-secret-key"),
                        !.contentType = Some(""),
                        !.contentSha256 = Some("")]

\* BaseOptions with one property changed.
Variants ==
    {[BaseOptions EXCEPT !.date = v] :
        v \in {None, Some(NewYear2025Plus1s), Some(EndOfYear999)}}
    \cup {[BaseOptions EXCEPT !.secretAccessKey = Some("")]}
    \cup {[BaseOptions EXCEPT !.debug = Some(TRUE)]}
    \cup {[BaseOptions EXCEPT !.debug = Some(TRUE),
                              !.secretAccessKey = Some("other-secret-key")]}
    \cup {[BaseOptions EXCEPT !.bucket = "文"]}

\* The option objects signTOSRequest is called with directly.
DirectOptions ==
    {BaseOptions, TestOptions, BucketRootOptions, OtherOptions} \cup Variants

\* The options the client is constructed with.
ClientOptions ==
    [region          |-> "cn-beijing",
     endpoint        |-> "tos-cn-beijing.volces.com",
     accessKeyId     |-> "test-access-key",
     accessKeySecret |-> "test-secret-key",
     debug           |-> None]

Buckets == {"test-bucket"}
Keys == {"test-file.txt"}

\* The data upload is given: a Blob, a Uint8Array viewing part of a buffer,
\* and a string (not a supported type).
UploadData ==
    { [kind |-> "Blob", bytes |-> <<104, 105>>, type |-> "text/plain",
       byteOffset |-> 0, byteLength |-> 2, shared |-> FALSE],
      [kind |-> "Uint8Array", bytes |-> <<1, 2, 3, 4>>, type |-> "",
       byteOffset |-> 1, byteLength |-> 2, shared |-> FALSE],
      [kind |-> "string", bytes |-> <<>>, type |-> "",
       byteOffset |-> 0, byteLength |-> 0, shared |-> FALSE] }

UploadOptionsSet == {[contentType |-> None]}

\* What the server may answer to a request.
Responses ==
    { [ok |-> TRUE, status |-> 200, text |-> "", body |-> <<104, 105>>],
      [ok |-> FALSE, status |-> 404, text |-> "NoSuchKey", body |-> <<>>] }

\* fetch throws (the network fails): there is no response to be ok.
NoResponse == [ok |-> FALSE, status |-> 0, text |-> "", body |-> <<>>]

\* No response body has been handed to parseListObjectsResponse, and the
\* script is not run.
NoListing == [text |-> "", parsed |-> FALSE]
NoScript == [pc |-> "off"]

(***************************************************************************)
(* The state machine.                                                      *)
(***************************************************************************)
Init ==
    /\ now = StartInstant
    /\ oracle = <<>>
    /\ calls = <<>>
    /\ console = <<>>
    /\ client = ClientOptions
    /\ ops = <<>>
    /\ http = <<>>
    /\ inflight = <<>>
    /\ listing = NoListing
    /\ script = NoScript

\* One second passes.
Tick ==
    /\ now # LastInstant
    /\ now' = AddMs(now, 1000)
    /\ UNCHANGED <<oracle, calls, console, client, ops, http, inflight, listing, script>>

\* What calls keeps of one signTOSRequest invocation.
CallRecord(r, origin) ==
    [f \in (DOMAIN r \ {"oracle"}) \cup {"origin"} |->
        IF f = "origin" THEN origin ELSE r[f]]

\* The effects of one signTOSRequest invocation r on what the model records.
Signed(r, origin) ==
    /\ calls' = Append(calls, CallRecord(r, origin))
    /\ oracle' = r.oracle
    /\ console' = console \o r.logs

\* signTOSRequest called by the user of the library.
Sign(options) ==
    /\ Len(calls) < MaxCalls
    /\ Signed(signTOSRequest(options, now, oracle), "direct")
    /\ UNCHANGED <<now, client, ops, http, inflight, listing, script>>

\* The options object a TOSClient operation hands to signTOSRequest.
ClientSignOptions(method, bucket, key, contentType, contentSha256) ==
    [method          |-> method,
     bucket          |-> bucket,
     key             |-> key,
     region          |-> client.region,
     endpoint        |-> client.endpoint,
     accessKeyId     |-> client.accessKeyId,
     secretAccessKey |-> None,
     accessKeySecret |-> Some(client.accessKeySecret),
     queryString     |-> None,
     customHeaders   |-> None,
     contentType     |-> contentType,
     contentSha256   |-> Some(contentSha256),
     date            |-> None,
     debug           |-> client.debug]

Url(bucket, key) == "https://" \o bucket \o "." \o client.endpoint \o "/" \o key

\* What an operation was given (data is the kind of value handed to upload,
\* "none" for the other operations) and what came of it.
OpRecord(op, bucket, key, data, status, error, returned, body, requests) ==
    [op |-> op, bucket |-> bucket, key |-> key, data |-> data,
     status |-> status, error |-> error, returned |-> returned, body |-> body,
     requests |-> requests]

\* Faulty variant of IsSupported: no check of the type of the data.
IsSupportedAny(data) == TRUE

\* data instanceof Blob || data instanceof ArrayBuffer || data instanceof Uint8Array
IsSupported(data) == data.kind \in {"Blob", "ArrayBuffer", "Uint8Array"}

\* The ArrayBuffer upload makes of its data: the content of a Blob, an
\* ArrayBuffer itself, and of a Uint8Array the slice of its buffer that it
\* views, unless that slice is no ArrayBuffer (the view is on a
\* SharedArrayBuffer, data.shared): then a new buffer of as many zero bytes.
ArrayBufferOf(data) ==
    IF data.kind = "Uint8Array"
    THEN IF data.shared
         THEN [i \in 1..data.byteLength |-> 0]
         ELSE SubSeq(data.bytes, data.byteOffset + 1, data.byteOffset + data.byteLength)
    ELSE data.bytes

\* a || b || c on strings, undefined modelled as None
FirstTruthy(a, b, c) ==
    IF a # None /\ a[1] # "" THEN a[1]
    ELSE IF b # None /\ b[1] # "" THEN b[1]
    ELSE c

UploadContentType(data, options) ==
    IF data.kind = "Blob"
    THEN FirstTruthy(options.contentType, Some(data.type), "application/octet-stream")
    ELSE FirstTruthy(options.contentType, None, "application/octet-stream")

\* What follows the await of signTOSRequest in upload, download and delete:
\* send one request, and throw on a response that is not ok.  r is the
\* outcome of the signing call.
Fetch(r, op, method, bucket, key, kind, body, verb, resp) ==
    /\ Signed(r, op)
    /\ IF r.status = "rejected"
       THEN /\ ops' = Append(ops, OpRecord(op, bucket, key, kind, "rejected", r.error,
                                           FALSE, <<>>, 0))
            /\ http' = http
       ELSE /\ http' = Append(http, [method |-> method, url |-> Url(bucket, key),
                                     headers |-> r.headers, body |-> body])
            /\ ops' = Append(ops,
                  IF ~resp.ok
                  THEN OpRecord(op, bucket, key, kind, "rejected",
                           "Failed to " \o verb \o " TOS: "
                               \o ToString(resp.status) \o " " \o resp.text,
                           FALSE, <<>>, 1)
                  ELSE OpRecord(op, bucket, key, kind, "resolved", "", FALSE,
                           IF op = "download" THEN resp.body ELSE <<>>, 1))

\* The part common to upload, download and delete: sign, then fetch.
SignAndFetch(op, method, bucket, key, kind, contentType, contentSha256, body, orc, verb, resp) ==
    Fetch(signTOSRequest(
              ClientSignOptions(method, bucket, key, contentType, contentSha256),
              now, orc),
          op, method, bucket, key, kind, body, verb, resp)

upload(bucket, key, data, options) ==
    /\ Len(calls) < MaxCalls /\ Len(ops) < MaxOps
    /\ IF ~IsSupported(data)
       THEN /\ ops' = Append(ops, OpRecord("upload", bucket, key, data.kind, "rejected",
                   "Unsupported data type. Must be Blob, ArrayBuffer, or Uint8Array",
                   FALSE, <<>>, 0))
            /\ UNCHANGED <<oracle, calls, console, http>>
       ELSE LET arrayBuffer   == ArrayBufferOf(data)
                contentType   == UploadContentType(data, options)
                hashBuffer    == subtleDigest(arrayBuffer, oracle)
                contentSha256 == bufferToHex(hashBuffer.value)
            IN  \E resp \in Responses :
                    SignAndFetch("upload", "PUT", bucket, key, data.kind,
                                 Some(contentType),
                                 contentSha256, arrayBuffer, hashBuffer.oracle,
                                 "upload to", resp)
    /\ UNCHANGED <<now, client, inflight, listing, script>>

download(bucket, key) ==
    /\ Len(calls) < MaxCalls /\ Len(ops) < MaxOps
    /\ \E resp \in Responses :
           SignAndFetch("download", "GET", bucket, key, "none", None, "UNSIGNED-PAYLOAD",
                        <<>>, oracle, "download from", resp)
    /\ UNCHANGED <<now, client, inflight, listing, script>>

delete(bucket, key) ==
    /\ Len(calls) < MaxCalls /\ Len(ops) < MaxOps
    /\ \E resp \in Responses :
           SignAndFetch("delete", "DELETE", bucket, key, "none", None, "UNSIGNED-PAYLOAD",
                        <<>>, oracle, "delete from", resp)
    /\ UNCHANGED <<now, client, inflight, listing, script>>

\* Faulty variant of HeadFetch: no catch, what signing throws reaches the
\* caller.
HeadFetchUncaught(r, bucket, key) ==
    /\ Signed(r, "exists")
    /\ ops' = Append(ops, OpRecord("exists", bucket, key, "none",
                                   IF r.status = "rejected" THEN "rejected" ELSE "resolved",
                                   r.error, FALSE, <<>>, 0))
    /\ http' = http

\* What follows the await of signTOSRequest in exists: whatever signing or
\* fetch throws is caught and answered with false.
HeadFetch(r, bucket, key) ==
    /\ Signed(r, "exists")
    /\ IF r.status = "rejected"
       THEN /\ ops' = Append(ops, OpRecord("exists", bucket, key, "none", "resolved",
                                           "", FALSE, <<>>, 0))
            /\ http' = http
       ELSE \E resp \in Responses \cup {NoResponse} :
            /\ http' = Append(http, [method |-> "HEAD", url |-> Url(bucket, key),
                                     headers |-> r.headers, body |-> <<>>])
            /\ ops' = Append(ops, OpRecord("exists", bucket, key, "none", "resolved",
                                           "", resp.ok, <<>>, 1))

exists(bucket, key) ==
    /\ Len(calls) < MaxCalls /\ Len(ops) < MaxOps
    /\ HeadFetch(signTOSRequest(
                ClientSignOptions("HEAD", bucket, key, None, "UNSIGNED-PAYLOAD"),
                now, oracle),
            bucket, key)
    /\ UNCHANGED <<now, client, inflight, listing, script>>

Next ==
    \/ Tick
    \/ \E options \in DirectOptions : Sign(options)
    \/ \E bucket \in Buckets, key \in Keys, data \in UploadData,
          options \in UploadOptionsSet : upload(bucket, key, data, options)
    \/ \E bucket \in Buckets, key \in Keys : download(bucket, key)
    \/ \E bucket \in Buckets, key \in Keys : delete(bucket, key)
    \/ \E bucket \in Buckets, key \in Keys : exists(bucket, key)

Spec == Init /\ [][Next]_vars

(***************************************************************************)
(* signTOSRequest one await at a time.  A call runs to its first await     *)
(* when it is made (the locals, the date and the first log line), and is   *)
(* then resumed six times: by the digest of the canonical request and by   *)
(* each of the five HMACs.  Calls in flight are resumed in any order; the   *)
(* clock is read when a call is made and not again, so it stands still.    *)
(***************************************************************************)
\* The option objects of the calls that are made step by step.
AsyncOptions ==
    {[BaseOptions EXCEPT !.date = None],
     [BaseOptions EXCEPT !.debug = Some(TRUE),
                         !.secretAccessKey = Some("other-secret-key")],
     [BaseOptions EXCEPT !.secretAccessKey = Some("")]}

\* The awaits of a call, in order: 1 is the digest, 2 .. 6 the HMACs
DigestAwait == 1
FirstHmacAwait == 2
LastHmacAwait == 6
Returned == 7

\* No HMAC of the call has completed yet
NoValue == [ok |-> TRUE, error |-> "", value |-> <<>>, oracle |-> <<>>]

\* Faulty variant of Awaited: the key chain kept in one place for all calls.
AwaitedShared(frames, i) == frames[Len(frames)].prev

\* const kDate, kRegion, kService, kSigning: the previous HMAC of call i,
\* which its own closure holds
Awaited(frames, i) == frames[i].prev

\* The lines of logs that come after the first n
LinesAfter(logs, n) == SubSeq(logs, n + 1, Len(logs))

BeginWith(p) ==
    /\ inflight' = Append(inflight, [p |-> p, stage |-> DigestAwait, prev |-> NoValue])
    /\ console' = console \o p.log1
    /\ UNCHANGED <<now, oracle, calls, client, ops, http, listing, script>>

\* signTOSRequest(options) is called: it runs up to its first await.
Begin(options) ==
    /\ Len(inflight) < MaxCalls
    /\ BeginWith(Prepared(options, now))

\* The digest of the canonical request arrives: q is the locals of the call
\* up to its next await.
DigestDone(i, q, orc) ==
    /\ inflight' = [inflight EXCEPT ![i] = [@ EXCEPT !.p = q, !.stage = FirstHmacAwait]]
    /\ oracle' = orc
    /\ console' = console \o LinesAfter(q.logs, Len(q.log1))
    /\ calls' = calls

\* The call returns or throws: r is its outcome.
Return(i, p, r) ==
    /\ inflight' = [inflight EXCEPT ![i] = [@ EXCEPT !.stage = Returned]]
    /\ oracle' = r.oracle
    /\ console' = console \o LinesAfter(r.logs, Len(p.logs))
    /\ calls' = Append(calls, CallRecord(r, "async"))

\* The data of the HMAC awaited at a stage
ChainData(p, stage) ==
    CASE stage = 2 -> p.dates.short
      [] stage = 3 -> p.options.region
      [] stage = 4 -> "tos"
      [] stage = 5 -> "request"
      [] OTHER     -> p.stringToSign

\* The HMAC awaited at a stage, keyed by the secret or by the previous HMAC
ChainStep(p, stage, prev, orc) ==
    IF stage = FirstHmacAwait
    THEN hmacSha256(OptString(p.options.secretAccessKey), ChainData(p, stage), orc)
    ELSE hmacStep([prev EXCEPT !.oracle = orc], ChainData(p, stage))

\* An HMAC arrives (or importKey throws): h is its outcome.
HmacDone(i, p, stage, h) ==
    IF ~h.ok \/ stage = LastHmacAwait
    THEN Return(i, p, SignFinish(p, h))
    ELSE /\ inflight' = [inflight EXCEPT ![i] = [@ EXCEPT !.prev = h, !.stage = stage + 1]]
         /\ oracle' = h.oracle
         /\ UNCHANGED <<calls, console>>

\* Call i is resumed by the operation it awaits.
Resume(i) ==
    /\ inflight[i].stage # Returned
    /\ IF inflight[i].stage = DigestAwait
       THEN DigestDone(i,
                Scoped(inflight[i].p,
                       subtleDigest(TextEncode(inflight[i].p.canonicalRequest), oracle)),
                subtleDigest(TextEncode(inflight[i].p.canonicalRequest), oracle).oracle)
       ELSE HmacDone(i, inflight[i].p, inflight[i].stage,
                ChainStep(inflight[i].p, inflight[i].stage,
                          Awaited(inflight, i), oracle))
    /\ UNCHANGED <<now, client, ops, http, listing, script>>

NextAsync ==
    \/ \E options \in AsyncOptions : Begin(options)
    \/ \E i \in 1..Len(inflight) : Resume(i)

SpecAsync == Init /\ [][NextAsync]_vars

(***************************************************************************)
(* Reading the recorded calls.                                             *)
(***************************************************************************)
Calls == {calls[i] : i \in 1..Len(calls)}
Resolved == {c \in Calls : c.status = "resolved"}

\* headers.get(name) of a call's result
HeaderOf(c, name) == HeadersGet(c.headers, name)

\* The lines of a text, split at its line feeds
Breaks(s) == {i \in 1..Len(s) : At(s, i) = "\n"}
NthBreak(b, k) == CHOOSE i \in b : Cardinality({j \in b : j < i}) = k - 1
LinesAt(s, b) ==
    [k \in 1..(Cardinality(b) + 1) |->
        SubSeq(s, IF k = 1 THEN 1 ELSE NthBreak(b, k - 1) + 1,
                  IF k = Cardinality(b) + 1 THEN Len(s) ELSE NthBreak(b, k) - 1)]
Lines(s) == LinesAt(s, Breaks(s))

\* The part of s before the first occurrence of the character c
Before(s, c) ==
    IF Occurs(s, c)
    THEN SubSeq(s, 1, (CHOOSE i \in 1..Len(s) :
                          At(s, i) = c /\ \A j \in 1..(i - 1) : At(s, j) # c) - 1)
    ELSE s

StartsWith(s, prefix) ==
    Len(s) >= Len(prefix) /\ SubSeq(s, 1, Len(prefix)) = prefix

IsDigits(s) == \A i \in 1..Len(s) : Occurs("0123456789", At(s, i))

\* The request a call signs: every option but the date, the debug flag and
\* the property the signer does not read.
RequestFields ==
    {"method", "bucket", "key", "region", "endpoint", "accessKeyId",
     "secretAccessKey", "contentType", "contentSha256"}
SameRequest(a, b) == \A f \in RequestFields : a.options[f] = b.options[f]

C2_ClientSecretSeedsKeyChain ==
    /\ \A c \in Calls :
           c.origin # "direct"
           => c.kDateKey = JsBuffer(TextEncode(client.accessKeySecret))
    /\ \A c \in Calls : c.options = TestOptions => c.status = "resolved"

\* C3 as stated: every call whose secret is a string returns a header set.
C3_NeverFails ==
    \A c \in Calls : IsSome(c.options.secretAccessKey) => c.status = "resolved"

\* The texts Headers.set accepts whatever surrounds them: Latin-1 characters
\* without a line break.
HeaderSafe(v) == \A i \in 1..Len(v) : At(v, i) \in (Latin1 \ {"\n", "\r"})

\* C3, amended: signTOSRequest returns a header set for every method and
\* key (the empty key included) when the secret is a non-empty string and
\* bucket, endpoint, region, accessKeyId, contentType and contentSha256 hold
\* only Latin-1 characters other than line breaks.
C3_NeverFailsAmended ==
    \A c \in Calls :
        (/\ IsSome(c.options.secretAccessKey)
         /\ c.options.secretAccessKey # Some("")
         /\ \A f \in {"bucket", "endpoint", "region", "accessKeyId"} :
                HeaderSafe(c.options[f])
         /\ HeaderSafe(OrElse(c.options.contentType, ""))
         /\ HeaderSafe(OrElse(c.options.contentSha256, "")))
        => c.status = "resolved"

\* A call with a method outside GET, PUT, DELETE, HEAD and a call with the
\* empty key have both returned headers.
C3_Witness ==
    /\ \E c \in Resolved : c.options.method \notin {"GET", "PUT", "DELETE", "HEAD"}
    /\ \E c \in Resolved : c.options.key = ""

C6_PayloadHash ==
    \A c \in Resolved :
        LET header == HeaderOf(c, "X-Tos-Content-Sha256")
            lines  == Lines(c.canonicalRequest)
            InAllThree(v) ==
                /\ header = Some(v)
                /\ lines[5] = "x-tos-content-sha256:" \o v
                /\ lines[Len(lines)] = v
        IN  /\ c.options.contentSha256 = None => InAllThree("UNSIGNED-PAYLOAD")
            /\ (c.options.contentSha256 # None /\ c.options.contentSha256 # Some(""))
                   => InAllThree(c.options.contentSha256[1])
            /\ header # None /\ header # Some("")

\* Headers were returned to a caller that gave no contentSha256 and to one
\* that gave one.
C6_Witness ==
    /\ \E c \in Resolved : c.options.contentSha256 = None
    /\ \E c \in Resolved : c.options.contentSha256 = Some("test-sha256")

\* C7: the Authorization header is 'TOS4-HMAC-SHA256 Credential=' +
\* accessKeyId + '/' + credentialScope + ', SignedHeaders=host;x-tos-content-
\* sha256;x-tos-date, Signature=' + signature, the signature being the 64
\* hexadecimal digits of the last HMAC.
C7_AuthorizationFormat ==
    \A c \in Resolved :
        /\ HeaderOf(c, "Authorization") =
               Some("TOS4-HMAC-SHA256 Credential=" \o c.options.accessKeyId
                    \o "/" \o c.credentialScope
                    \o ", SignedHeaders=host;x-tos-content-sha256;x-tos-date"
                    \o ", Signature=" \o c.signatureHex)
        /\ StartsWith(HeaderOf(c, "Authorization")[1], "TOS4-HMAC-SHA256 Credential=")
        /\ Len(c.signatureHex) = 64
        /\ \A i \in 1..64 : Occurs(HexDigitsLower, At(c.signatureHex, i))

\* Headers were returned for two different access key ids.
C7_Witness ==
    /\ \E c \in Resolved : c.options.accessKeyId = "test-access-key"
    /\ \E c \in Resolved : c.options.accessKeyId = "other-access-key"

\* C8: for every signing instant X-Tos-Date is YYYYMMDDTHHMMSSZ, 16
\* characters, and the short date of the credential scope is its first 8,
\* YYYYMMDD; 2025-01-01T00:00:00Z gives '20250101T000000Z'.
C8_DateFormat ==
    \A c \in Resolved :
        LET long  == HeaderOf(c, "X-Tos-Date")[1]
            short == Before(c.credentialScope, "/")
        IN  /\ Len(long) = 16
            /\ IsDigits(SubSeq(long, 1, 8)) /\ At(long, 9) = "T"
            /\ IsDigits(SubSeq(long, 10, 15)) /\ At(long, 16) = "Z"
            /\ Len(short) = 8 /\ short = SubSeq(long, 1, 8)
            /\ c.date = NewYear2025 => long = "20250101T000000Z"

\* C9: the credential scope that follows accessKeyId + '/' in the
\* Authorization header and is the third line of the string to sign is
\* shortDate + '/' + region + '/tos/request', shortDate being the date part
\* of the X-Tos-Date of the same call.
C9_CredentialScope ==
    \A c \in Resolved :
        LET shortDate == Before(HeaderOf(c, "X-Tos-Date")[1], "T")
            scope     == shortDate \o "/" \o c.options.region \o "/tos/request"
        IN  /\ Lines(c.stringToSign)[3] = scope
            /\ StartsWith(HeaderOf(c, "Authorization")[1],
                          "TOS4-HMAC-SHA256 Credential=" \o c.options.accessKeyId
                              \o "/" \o scope \o ", ")
            /\ c.date = NewYear2025 => shortDate = "20250101"

\* Headers were returned for two regions, one of them signed with the
\* clock's time.
C9_Witness ==
    /\ \E c \in Resolved : c.options.region = "cn-shanghai"
    /\ \E c \in Resolved : c.options.region = "cn-beijing" /\ c.options.date = None

\* C10: two calls for the same request whose signing instants are one
\* second apart return different X-Tos-Date and Authorization values and
\* equal Host, X-Tos-Content-Sha256 and Content-Type values.
C10_OneSecondApart ==
    \A a, b \in Resolved :
        (SameRequest(a, b) /\ b.date = AddMs(a.date, 1000))
        => /\ HeaderOf(a, "X-Tos-Date") # HeaderOf(b, "X-Tos-Date")
           /\ HeaderOf(a, "Authorization") # HeaderOf(b, "Authorization")
           /\ \A n \in {"Host", "X-Tos-Content-Sha256", "Content-Type"} :
                  HeaderOf(a, n) = HeaderOf(b, n)

\* The same request was signed at the clock's time, a second passed, and it
\* was signed again.
C10_Witness ==
    \E a, b \in Resolved :
        /\ SameRequest(a, b)
        /\ a.options.date = None /\ b.options.date = None
        /\ b.date = AddMs(a.date, 1000)

(***************************************************************************)
(* C11 .. C20: the canonical strings, the key chain, what the secret and   *)
(* the debug flag reach, concurrent calls, and the client's errors.        *)
(***************************************************************************)
\* The characters a canonical URI keeps as they are: the unreserved
\* characters and the path separator
UriKept ==
    LET chars == "ABCDEFGHIJKLMNOPQRSTUVWXYZabcdefghijklmnopqrstuvwxyz0123456789-_.~/"
    IN  {At(chars, i) : i \in 1..Len(chars)}

\* '%' and two upper-case hexadecimal digits for every byte
PercentEncoded(bytes) ==
    LET hex(b) == At(HexDigitsUpper, (b \div 16) + 1) \o At(HexDigitsUpper, (b % 16) + 1)
        F[i \in 0..Len(bytes)] ==
            IF i = 0 THEN "" ELSE F[i - 1] \o "%" \o hex(bytes[i])
    IN  F[Len(bytes)]

\* The canonical URI the claim describes, character by character
ExpectedUri(key) ==
    LET F[i \in 0..Len(key)] ==
            IF i = 0 THEN "/"
            ELSE F[i - 1] \o (IF At(key, i) \in UriKept THEN At(key, i)
                              ELSE PercentEncoded(Utf8Char(At(key, i))))
    IN  F[Len(key)]

\* The object keys the calls are given
SignedKeys == {o.key : o \in DirectOptions} \cup Keys

\* C11: the canonical URI (second line of the canonical request) is '/'
\* followed by the key with '/' and the unreserved characters kept and
\* every other character replaced by the percent-encoding of its UTF-8
\* bytes; the empty key gives '/'; a key with spaces, parentheses and
\* non-ASCII characters signs without error.
C11_CanonicalUri ==
    \A c \in Calls :
        LET uri == Lines(c.canonicalRequest)[2]
        IN  /\ \E key \in SignedKeys : c.options.key = key /\ uri = ExpectedUri(key)
            /\ c.options.key = "" => uri = "/"
            /\ c.options.key = "test-file.txt" => uri = "/test-file.txt"
            /\ c.options = OtherOptions =>
                   /\ c.status = "resolved"
                   /\ uri = "/path/to/%E6%96%87%E4%BB%B6%20%281%29%21%27%2A~%3F%23%25.txt"

\* The key with reserved and non-ASCII characters and the empty key have
\* both been signed.
C11_Witness ==
    /\ \E c \in Resolved : c.options = OtherOptions
    /\ \E c \in Resolved : c.options.key = ""

\* C12: the canonical request is the newline-joined sequence of the method,
\* the canonical URI, the query string of the caller as it was given (the
\* empty string when none was given), the three canonical header lines
\* host, x-tos-content-sha256, x-tos-date, an empty line, the signed header
\* list and the payload hash.
C12_CanonicalRequest ==
    \A c \in Calls :
        LET lines == Lines(c.canonicalRequest)
            long  == Lines(c.stringToSign)[2]
            hash  == IF c.options.contentSha256 \in {None, Some("")}
                     THEN "UNSIGNED-PAYLOAD" ELSE c.options.contentSha256[1]
        IN  lines = << c.options.method,
                       ExpectedUri(c.options.key),
                       OrElse(c.options.queryString, ""),
                       "host:" \o c.options.bucket \o "." \o c.options.endpoint,
                       "x-tos-content-sha256:" \o hash,
                       "x-tos-date:" \o long,
                       "",
                       "host;x-tos-content-sha256;x-tos-date",
                       hash >>

\* Two lower-case hexadecimal digits for every byte
HexByte ==
    [b \in 0..255 |->
        At(HexDigitsLower, (b \div 16) + 1) \o At(HexDigitsLower, (b % 16) + 1)]

RECURSIVE HexRange(_, _, _)

HexRange(bytes, lo, hi) ==
    IF lo > hi THEN ""
    ELSE IF lo = hi THEN HexByte[bytes[lo]]
    ELSE HexRange(bytes, lo, (lo + hi) \div 2)
             \o HexRange(bytes, ((lo + hi) \div 2) + 1, hi)

HexOf(bytes) == HexRange(bytes, 1, Len(bytes))

\* What the crypto engine has answered to a query (no bytes when the query
\* was never made)
Answered(q) ==
    IF \E i \in 1..Len(oracle) : oracle[i] = q THEN Answer(oracle, q) ELSE <<>>
Sha256(data) == Answered([alg |-> "SHA-256", key |-> <<>>, data |-> data])
Hmac(key, data) == Answered([alg |-> "HMAC", key |-> key, data |-> data])

\* The character of a code unit
CharOf == [u \in {CodeUnit[c] : c \in Alphabet} |->
              CHOOSE c \in Alphabet : CodeUnit[c] = u]

\* UTF-8: the bytes that continue a character, the number of bytes of the
\* character a byte starts, and its code unit
IsContinuation(b) == b \in 128..191
Utf8Width(b) == IF b < 128 THEN 1 ELSE IF b < 224 THEN 2 ELSE 3
Utf8Unit(bytes, i) ==
    IF bytes[i] < 128 THEN bytes[i]
    ELSE IF bytes[i] < 224
    THEN (bytes[i] - 192) * 64 + (bytes[i + 1] - 128)
    ELSE (bytes[i] - 224) * 4096 + (bytes[i + 1] - 128) * 64 + (bytes[i + 2] - 128)

Utf8WellFormed(bytes) ==
    \A i \in 1..Len(bytes) :
        IF IsContinuation(bytes[i])
        THEN \E k \in 1..2 : /\ i - k >= 1
                             /\ ~IsContinuation(bytes[i - k])
                             /\ Utf8Width(bytes[i - k]) > k
                             /\ \A j \in 1..(k - 1) : IsContinuation(bytes[i - j])
        ELSE /\ i + Utf8Width(bytes[i]) - 1 <= Len(bytes)
             /\ \A k \in 1..(Utf8Width(bytes[i]) - 1) : IsContinuation(bytes[i + k])
             /\ Utf8Unit(bytes, i) \in DOMAIN CharOf

RECURSIVE DecodeRange(_, _, _)
DecodeRange(bytes, lo, hi) ==
    IF lo > hi THEN ""
    ELSE IF lo = hi
    THEN (IF IsContinuation(bytes[lo]) THEN "" ELSE CharOf[Utf8Unit(bytes, lo)])
    ELSE LET mid == (lo + hi) \div 2
         IN  DecodeRange(bytes, lo, mid) \o DecodeRange(bytes, mid + 1, hi)

\* The text a sequence of bytes is the UTF-8 encoding of ("" when it is not
\* the encoding of a text over the model's characters)
Utf8Decode(bytes) ==
    IF Utf8WellFormed(bytes) THEN DecodeRange(bytes, 1, Len(bytes)) ELSE ""

\* The bytes are the UTF-8 encoding of the text: byte for character when
\* there are as many bytes as characters, and more bytes than characters,
\* some of them above 127, otherwise
IsUtf8Of(bytes, text) ==
    IF Len(bytes) = Len(text)
    THEN \A i \in 1..Len(bytes) :
             /\ bytes[i] < 128
             /\ bytes[i] \in DOMAIN CharOf
             /\ CharOf[bytes[i]] = At(text, i)
    ELSE /\ Len(bytes) > Len(text)
         /\ \E i \in 1..Len(bytes) : bytes[i] >= 128
         /\ Utf8Decode(bytes) = text

\* C13: the string to sign is the newline-joined sequence of
\* 'TOS4-HMAC-SHA256', the long timestamp (the X-Tos-Date header), the
\* credential scope, and the 64 lower-case hexadecimal digits of the
\* SHA-256 digest of the UTF-8 bytes of the canonical request.
C13_StringToSign ==
    \A c \in Resolved :
        \E i \in 1..Len(oracle) :
            /\ oracle[i].alg = "SHA-256"
            /\ IsUtf8Of(oracle[i].data, c.canonicalRequest)
            /\ Len(HexOf(DigestBytes(i))) = 64
            /\ c.stringToSign =
                   "TOS4-HMAC-SHA256" \o "\n" \o HeaderOf(c, "X-Tos-Date")[1] \o "\n"
                       \o c.credentialScope \o "\n" \o HexOf(DigestBytes(i))

\* A request whose canonical request holds non-ASCII text has been signed.
C13_Witness ==
    \E c \in Resolved :
        /\ c.options = OtherOptions
        /\ Len(TextEncode(c.canonicalRequest)) # Len(c.canonicalRequest)

\* The text after a marker that s holds once
After(s, marker) ==
    LET at == {k \in 1..(Len(s) - Len(marker) + 1) :
                  SubSeq(s, k, k + Len(marker) - 1) = marker}
    IN  IF at = {} THEN "" ELSE SubSeq(s, (CHOOSE k \in at : TRUE) + Len(marker), Len(s))

\* C14: the signature in the Authorization header is
\* hex(HMAC(HMAC(HMAC(HMAC(HMAC(utf8(secret), shortDate), region), 'tos'),
\* 'request'), stringToSign)), every HMAC output being the raw key of the
\* next, rendered as 64 lower-case hexadecimal digits.
C14_SignatureChain ==
    \A c \in Resolved :
        LET shortDate == Before(HeaderOf(c, "X-Tos-Date")[1], "T")
            kDate     == Hmac(TextEncode(c.options.secretAccessKey[1]),
                              TextEncode(shortDate))
            kRegion   == Hmac(kDate, TextEncode(c.options.region))
            kService  == Hmac(kRegion, TextEncode("tos"))
            kSigning  == Hmac(kService, TextEncode("request"))
            signature == HexOf(Hmac(kSigning, TextEncode(c.stringToSign)))
        IN  /\ After(HeaderOf(c, "Authorization")[1], ", Signature=") = signature
            /\ Len(signature) = 64

\* Two requests with different secrets and regions have been signed.
C14_Witness ==
    /\ \E c \in Resolved : c.options.secretAccessKey = Some("test-secret-key")
    /\ \E c \in Resolved : c.options.secretAccessKey = Some("other-secret-key")

Contains(s, sub) ==
    \E k \in 1..(Len(s) - Len(sub) + 1) : SubSeq(s, k, k + Len(sub) - 1) = sub

\* Two calls that were given the same options, the secret apart, and sign
\* the same instant
DifferOnlyInSecret(a, b) ==
    /\ \A f \in (RequestFields \ {"secretAccessKey"}) \cup {"queryString", "debug"} :
           a.options[f] = b.options[f]
    /\ a.date = b.date
    /\ a.options.secretAccessKey # b.options.secretAccessKey

\* The secrets a call was handed, under either property name
SecretsOf(c) ==
    {o[1] : o \in {c.options.secretAccessKey, c.options.accessKeySecret} \ {None, Some("")}}

\* C15: the secret reaches the output only as the key of the first HMAC:
\* two calls that differ only in the secret have the same canonical
\* request, string to sign, canonical-request and string-to-sign log lines
\* and Host, X-Tos-Date, X-Tos-Content-Sha256 and Content-Type headers; and
\* the secret occurs in no returned header value and in no logged line.
C15_SecretOnlyKeysTheChain ==
    /\ \A a, b \in Calls :
           DifferOnlyInSecret(a, b) =>
               /\ a.canonicalRequest = b.canonicalRequest
               /\ a.stringToSign = b.stringToSign
               /\ (Len(a.logs) >= 2) = (Len(b.logs) >= 2)
               /\ Len(a.logs) >= 2 => \A i \in 1..2 : a.logs[i] = b.logs[i]
               /\ (a.status = "resolved" /\ b.status = "resolved") =>
                      \A n \in {"Host", "X-Tos-Date", "X-Tos-Content-Sha256",
                                "Content-Type"} : HeaderOf(a, n) = HeaderOf(b, n)
    /\ \A c \in Calls : \A secret \in SecretsOf(c) :
           /\ \A n \in DOMAIN c.headers : ~Contains(c.headers[n], secret)
           /\ \A i \in 1..Len(c.logs) : ~Contains(c.logs[i], secret)
    /\ \A i \in 1..Len(console) : \A c \in Calls : \A secret \in SecretsOf(c) :
           ~Contains(console[i], secret)

\* Two calls with debug output that differ only in the secret have both
\* returned headers.
C15_Witness ==
    \E a, b \in Resolved :
        /\ DifferOnlyInSecret(a, b)
        /\ Len(a.logs) = 3 /\ Len(b.logs) = 3
        /\ HeaderOf(a, "Authorization") # HeaderOf(b, "Authorization")

\* Two calls given the same request and the same date, whatever their debug
\* flags
SameSigningInput(a, b) ==
    /\ SameRequest(a, b)
    /\ a.options.queryString = b.options.queryString
    /\ a.options.accessKeySecret = b.options.accessKeySecret
    /\ a.options.date = b.options.date
    /\ a.options.date # None

Debugging(c) == OrElse(c.options.debug, FALSE)

\* C16: the debug flag changes nothing but the log: for a fixed date, a call
\* with debug set and a call without it have the same outcome and return the
\* same headers; only a call with debug set logs anything.
C16_DebugOnlyLogs ==
    /\ \A a, b \in Calls :
           SameSigningInput(a, b) =>
               /\ a.status = b.status
               /\ a.error = b.error
               /\ a.headers = b.headers
    /\ \A c \in Calls : ~Debugging(c) => c.logs = <<>>
    /\ \A c \in Resolved : Debugging(c) => Len(c.logs) = 3

\* A call with debug set and one without, for the same request and date, have
\* both returned headers.
C16_Witness ==
    \E a, b \in Resolved :
        /\ SameSigningInput(a, b)
        /\ Debugging(a) /\ ~Debugging(b)
        /\ Len(a.logs) = 3 /\ b.logs = <<>>

AsyncCalls == {c \in Calls : c.origin = "async"}

\* The digest a call in flight was resumed with, asked again
DigestAgain(p) == subtleDigest(TextEncode(p.canonicalRequest), oracle)

\* C17: calls in flight at the same time do not affect each other: however
\* their awaits are interleaved, a call returns (or throws) exactly what the
\* same call returns when it runs alone from start to end, and the locals of
\* a suspended call are those it computed itself.
C17_ConcurrentCallsIndependent ==
    /\ \A c \in AsyncCalls :
           c = CallRecord(signTOSRequest(c.options, c.date, oracle), "async")
    /\ \A i \in 1..Len(inflight) :
           LET f == inflight[i]
           IN  /\ f.stage = DigestAwait => f.p = Prepared(f.p.options, f.p.date)
               /\ f.stage # DigestAwait =>
                      f.p = Scoped(Prepared(f.p.options, f.p.date), DigestAgain(f.p))

\* Two different calls have both returned headers, the one that began first
\* having passed its first await before the other returned, and returned
\* after it.
C17_Witness ==
    /\ Len(inflight) = 2 /\ Len(calls) = 2
    /\ calls[1].options = inflight[2].p.options
    /\ calls[2].options = inflight[1].p.options
    /\ calls[1].status = "resolved" /\ calls[2].status = "resolved"
    /\ calls[1].headers # calls[2].headers
    /\ calls[1].canonicalRequest # calls[2].canonicalRequest
    /\ oracle[1].data = TextEncode(calls[2].canonicalRequest)

Ops == {ops[i] : i \in 1..Len(ops)}

IsClientCall(c) == c.origin \in {"upload", "download", "delete", "exists"}
SignsRequest(o) == o.op # "upload" \/ o.data # "string"

\* The signing calls TOSClient made, and the operations that made them, both
\* in the order they happened: the i-th call is that of the i-th operation.
ClientCalls == SelectSeq(calls, IsClientCall)
SigningOps == SelectSeq(ops, SignsRequest)

UnsupportedMessage == "Unsupported data type. Must be Blob, ArrayBuffer, or Uint8Array"

\* C18: an upload (of supported data), download or delete sends exactly one
\* HTTP request, and either resolves or rejects with the error that carries
\* the status and the body text of the response.
C18_OneRequestPerOperation ==
    \A o \in Ops :
        (o.op \in {"upload", "download", "delete"} /\ SignsRequest(o)) =>
            /\ o.requests = 1
            /\ \/ o.status = "resolved"
               \/ o.status = "rejected" /\ StartsWith(o.error, "Failed to ")

\* C19: upload of data that is no Blob, ArrayBuffer or Uint8Array (a string)
\* rejects with the 'Unsupported data type' error, and the step hashes
\* nothing, signs nothing and sends nothing.
C19_UnsupportedDataRejectedFirst ==
    [][(Len(ops') = Len(ops) + 1 /\ ops'[Len(ops')].op = "upload"
            /\ ops'[Len(ops')].data = "string")
        => /\ ops'[Len(ops')].status = "rejected"
           /\ ops'[Len(ops')].error = UnsupportedMessage
           /\ ops'[Len(ops')].requests = 0
           /\ UNCHANGED <<oracle, calls, console, http>>]_vars

\* A string was handed to upload.
C19_Witness ==
    \E o \in Ops : o.op = "upload" /\ o.data = "string" /\ o.error = UnsupportedMessage

SetProp(obj, name, value) ==
    IF \E i \in 1..Len(obj) : obj[i][1] = name
    THEN [i \in 1..Len(obj) |-> IF obj[i][1] = name THEN <<name, value>> ELSE obj[i]]
    ELSE Append(obj, <<name, value>>)

JsUndef == [t |-> "undefined", v |-> 0]
JsNull == [t |-> "null", v |-> 0]
JsBool(b) == [t |-> "bool", v |-> b]
JsNum(n) == [t |-> "num", v |-> n]
JsStr(str) == [t |-> "str", v |-> str]
JsArr(elements) == [t |-> "arr", v |-> elements]
JsObj(entries) == [t |-> "obj", v |-> entries]
\* new Date(value), and new Date(): the instant the clock shows
JsDate(value) == [t |-> "date", v |-> value]
JsNow == [t |-> "now", v |-> 0]

\* What a parser makes of the text from a position on: a value and the
\* position after it, or a SyntaxError
SyntaxError == [ok |-> FALSE, value |-> JsUndef, next |-> 0]
Parsed(value, next) == [ok |-> TRUE, value |-> value, next |-> next]

Whitespace == {" ", "\t", "\n", "\r"}
Digits == {"0", "1", "2", "3", "4", "5", "6", "7", "8", "9"}

DigitValue ==
    [c \in Digits |->
        CHOOSE n \in 0..9 : ToString(n) = c]

RECURSIVE SkipWs(_, _)

SkipWs(s, i) ==
    IF i <= Len(s) /\ At(s, i) \in Whitespace THEN SkipWs(s, i + 1) ELSE i

\* The position after the digits that start at i
RECURSIVE DigitsEnd(_, _)

DigitsEnd(s, i) ==
    IF i <= Len(s) /\ At(s, i) \in Digits THEN DigitsEnd(s, i + 1) ELSE i

\* parseInt(digits, 10) of a string of digits
RECURSIVE parseInt(_)

parseInt(digits) ==
    IF digits = ""
    THEN 0
    ELSE 10 * parseInt(SubSeq(digits, 1, Len(digits) - 1))
             + DigitValue[At(digits, Len(digits))]

\* s has the text pat at position i
HasAt(s, pat, i) ==
    /\ i >= 1
    /\ i + Len(pat) - 1 <= Len(s)
    /\ SubSeq(s, i, i + Len(pat) - 1) = pat

\* s.indexOf(pat, from), counted from 1; 0 when there is none
IndexOfFrom(s, pat, from) ==
    LET at == {k \in from..(Len(s) - Len(pat) + 1) : HasAt(s, pat, k)}
    IN  IF at = {} THEN 0 ELSE CHOOSE k \in at : \A m \in at : k <= m

\* A JSON number at i
ParseNumber(s, i, start, end) ==
    IF end = start \/ (end - start > 1 /\ At(s, start) = "0")
    THEN SyntaxError
    ELSE Parsed(JsNum((IF start = i THEN 1 ELSE -1)
                          * parseInt(SubSeq(s, start, end - 1))),
                end)

\* The characters of a JSON string whose opening quote comes before i
RECURSIVE ParseChars(_, _, _)

ParseChars(s, i, acc) ==
    IF i > Len(s)
    THEN SyntaxError
    ELSE IF At(s, i) = "\""
    THEN Parsed(JsStr(acc), i + 1)
    ELSE IF At(s, i) = "\\"
    THEN IF i < Len(s) /\ At(s, i + 1) \in {"\"", "\\", "/"}
         THEN ParseChars(s, i + 2, acc \o At(s, i + 1))
         ELSE SyntaxError
    ELSE ParseChars(s, i + 1, acc \o At(s, i))

\* true, false or null at i
Literal(s, i, word, value) ==
    IF HasAt(s, word, i) THEN Parsed(value, i + Len(word)) ELSE SyntaxError

RECURSIVE ParseValue(_, _)
RECURSIVE ValueAt(_, _)
RECURSIVE ElementsAt(_, _, _)
RECURSIVE ElementParsed(_, _, _)
RECURSIVE AfterElement(_, _, _)
RECURSIVE MembersAt(_, _, _)
RECURSIVE NameParsed(_, _, _)
RECURSIVE ColonAt(_, _, _, _)
RECURSIVE MemberParsed(_, _, _, _)
RECURSIVE AfterMember(_, _, _)

\* A JSON value at i, after white space
ParseValue(s, i) == ValueAt(s, SkipWs(s, i))

ValueAt(s, j) ==
    IF j > Len(s)
    THEN SyntaxError
    ELSE CASE At(s, j) = "{" ->
                  IF HasAt(s, "}", SkipWs(s, j + 1))
                  THEN Parsed(JsObj(<<>>), SkipWs(s, j + 1) + 1)
                  ELSE MembersAt(s, SkipWs(s, j + 1), <<>>)
           [] At(s, j) = "[" ->
                  IF HasAt(s, "]", SkipWs(s, j + 1))
                  THEN Parsed(JsArr(<<>>), SkipWs(s, j + 1) + 1)
                  ELSE ElementsAt(s, j + 1, <<>>)
           [] At(s, j) = "\"" -> ParseChars(s, j + 1, "")
           [] At(s, j) = "-" -> ParseNumber(s, j, j + 1, DigitsEnd(s, j + 1))
           [] At(s, j) \in Digits -> ParseNumber(s, j, j, DigitsEnd(s, j))
           [] At(s, j) = "t" -> Literal(s, j, "true", JsBool(TRUE))
           [] At(s, j) = "f" -> Literal(s, j, "false", JsBool(FALSE))
           [] At(s, j) = "n" -> Literal(s, j, "null", JsNull)
           [] OTHER -> SyntaxError

\* The elements of an array from i on; acc holds those read
ElementsAt(s, i, acc) == ElementParsed(s, acc, ParseValue(s, i))

ElementParsed(s, acc, r) ==
    IF ~r.ok THEN SyntaxError ELSE AfterElement(s, Append(acc, r.value), SkipWs(s, r.next))

AfterElement(s, acc, j) ==
    IF HasAt(s, ",", j) THEN ElementsAt(s, j + 1, acc)
    ELSE IF HasAt(s, "]", j) THEN Parsed(JsArr(acc), j + 1)
    ELSE SyntaxError

\* The members of an object from j on; acc holds the entries read
MembersAt(s, j, acc) ==
    IF HasAt(s, "\"", j) THEN NameParsed(s, acc, ParseChars(s, j + 1, "")) ELSE SyntaxError

NameParsed(s, acc, name) ==
    IF ~name.ok THEN SyntaxError ELSE ColonAt(s, acc, name.value.v, SkipWs(s, name.next))

ColonAt(s, acc, name, j) ==
    IF HasAt(s, ":", j) THEN MemberParsed(s, acc, name, ParseValue(s, j + 1)) ELSE SyntaxError

MemberParsed(s, acc, name, r) ==
    IF ~r.ok
    THEN SyntaxError
    ELSE AfterMember(s, SetProp(acc, name, r.value), SkipWs(s, r.next))

AfterMember(s, acc, j) ==
    IF HasAt(s, ",", j) THEN MembersAt(s, SkipWs(s, j + 1), acc)
    ELSE IF HasAt(s, "}", j) THEN Parsed(JsObj(acc), j + 1)
    ELSE SyntaxError

\* Nothing but white space follows the value
WholeText(s, r) ==
    IF r.ok /\ SkipWs(s, r.next) > Len(s) THEN r ELSE SyntaxError

\* JSON.parse(text)
JSONparse(text) == WholeText(text, ParseValue(text, 1))

\* if (v), v || w
JsTruthy(v) ==
    \/ v.t \in {"arr", "obj"}
    \/ v.t = "bool" /\ v.v
    \/ v.t = "num" /\ v.v # 0
    \/ v.t = "str" /\ v.v # ""

Or(v, w) == IF JsTruthy(v) THEN v ELSE w

\* value[name] of a value that is neither null nor undefined
Prop(value, name) ==
    IF value.t = "obj" /\ \E i \in 1..Len(value.v) : value.v[i][1] = name
    THEN value.v[CHOOSE i \in 1..Len(value.v) : value.v[i][1] = name][2]
    ELSE JsUndef

\* What a parse function comes to: a result, or a TypeError thrown
TypeError == [ok |-> FALSE, result |-> JsUndef]
Value(result) == [ok |-> TRUE, result |-> result]

\* item.Key or item.ETag.replace throws
ItemThrows(item) ==
    item.t \in {"null", "undefined"} \/ Prop(item, "ETag").t # "str"

\* The ObjectInfo made of an entry of json.Contents
ObjectInfoOf(item) ==
    [key          |-> Prop(item, "Key"),
     lastModified |-> JsDate(Prop(item, "LastModified")),
     etag         |-> JsStr(ReplaceAll(Prop(item, "ETag").v, "\"", "")),
     size         |-> Prop(item, "Size"),
     storageClass |-> Prop(item, "StorageClass")]

\* parseListObjectsJSON once json.Contents || [] and json.CommonPrefixes || []
\* are read
ListObjectsOf(json, contents, prefixes) ==
    IF \/ contents.t # "arr"
       \/ \E i \in 1..Len(contents.v) : ItemThrows(contents.v[i])
       \/ prefixes.t # "arr"
       \/ \E i \in 1..Len(prefixes.v) : prefixes.v[i].t \in {"null", "undefined"}
    THEN TypeError
    ELSE Value([via                   |-> "JSON",
                objects               |-> [i \in 1..Len(contents.v) |->
                                              ObjectInfoOf(contents.v[i])],
                commonPrefixes        |-> [i \in 1..Len(prefixes.v) |->
                                              Prop(prefixes.v[i], "Prefix")],
                isTruncated           |-> Or(Prop(json, "IsTruncated"), JsBool(FALSE)),
                nextContinuationToken |-> Prop(json, "NextContinuationToken"),
                keyCount              |-> Or(Prop(json, "KeyCount"),
                                             JsNum(Len(contents.v)))])

parseListObjectsJSON(json) ==
    IF json.t = "null"
    THEN TypeError
    ELSE ListObjectsOf(json, Or(Prop(json, "Contents"), JsArr(<<>>)),
                       Or(Prop(json, "CommonPrefixes"), JsArr(<<>>)))

\* The character classes of the patterns: \w, \d and [^<]
InClass(c, class) ==
    CASE class = "\\w" -> \/ c \in Digits
                          \/ c = "_"
                          \/ Occurs(UpperLetters, c)
                          \/ Occurs(LowerLetters, c)
      [] class = "\\d" -> c \in Digits
      [] OTHER         -> c # "<"

\* The position after the characters of a class that start at i
RECURSIVE RunEnd(_, _, _)

RunEnd(s, i, class) ==
    IF i <= Len(s) /\ InClass(At(s, i), class) THEN RunEnd(s, i + 1, class) ELSE i

NoMatch == [found |-> FALSE, text |-> "", next |-> 0]

\* s.match(/<tag>(class{least,})<\/tag>/) tried from position from on: the
\* text captured by the leftmost match and the position after the match
RECURSIVE TagMatchFrom(_, _, _, _, _)
RECURSIVE TagMatchAt(_, _, _, _, _, _)

TagMatchFrom(s, tag, class, least, from) ==
    IF IndexOfFrom(s, "<" \o tag \o ">", from) = 0
    THEN NoMatch
    ELSE TagMatchAt(s, tag, class, least,
                    IndexOfFrom(s, "<" \o tag \o ">", from) + Len(tag) + 2,
                    RunEnd(s, IndexOfFrom(s, "<" \o tag \o ">", from) + Len(tag) + 2,
                           class))

\* The opening tag ends before start, the characters of the class before end
TagMatchAt(s, tag, class, least, start, end) ==
    IF end - start >= least /\ HasAt(s, "</" \o tag \o ">", end)
    THEN [found |-> TRUE, text |-> SubSeq(s, start, end - 1),
          next |-> end + Len(tag) + 3]
    ELSE TagMatchFrom(s, tag, class, least, start - Len(tag) - 1)

TagMatch(s, tag, class, least) == TagMatchFrom(s, tag, class, least, 1)

\* match?.[1] ? f(match[1]) : otherwise
Captured(m) == m.found /\ m.text # ""

\* The ObjectInfo made of the text of a <Contents> block
ObjectInfoIn(content) ==
    [key          |-> JsStr(TagMatch(content, "Key", "[^<]", 0).text),
     lastModified |-> IF Captured(TagMatch(content, "LastModified", "[^<]", 1))
                      THEN JsDate(JsStr(TagMatch(content, "LastModified", "[^<]", 1).text))
                      ELSE JsDate(JsNow),
     etag         |-> IF Captured(TagMatch(content, "ETag", "[^<]", 1))
                      THEN JsStr(ReplaceAll(TagMatch(content, "ETag", "[^<]", 1).text,
                                            "\"", ""))
                      ELSE JsStr(""),
     size         |-> IF Captured(TagMatch(content, "Size", "\\d", 1))
                      THEN JsNum(parseInt(TagMatch(content, "Size", "\\d", 1).text))
                      ELSE JsNum(0),
     storageClass |-> IF Captured(TagMatch(content, "StorageClass", "[^<]", 1))
                      THEN JsStr(TagMatch(content, "StorageClass", "[^<]", 1).text)
                      ELSE JsStr("STANDARD")]

\* The loop over /<Contents>([\s\S]*?)<\/Contents>/g from position from on
RECURSIVE ContentsFrom(_, _, _)
RECURSIVE ContentsBlock(_, _, _, _)

ContentsFrom(xml, from, objects) ==
    IF IndexOfFrom(xml, "<Contents>", from) = 0
    THEN objects
    ELSE ContentsBlock(xml, objects,
                       IndexOfFrom(xml, "<Contents>", from) + Len("<Contents>"),
                       IndexOfFrom(xml, "</Contents>",
                                   IndexOfFrom(xml, "<Contents>", from)
                                       + Len("<Contents>")))

\* A block opens before start; its closing tag is at end (0: there is none)
ContentsBlock(xml, objects, start, end) ==
    IF end = 0
    THEN objects
    ELSE ContentsFrom(xml, end + Len("</Contents>"),
             IF Captured(TagMatch(SubSeq(xml, start, end - 1), "Key", "[^<]", 0))
             THEN Append(objects, ObjectInfoIn(SubSeq(xml, start, end - 1)))
             ELSE objects)

\* The loop over
\* /<CommonPrefixes>[\s\S]*?<Prefix>([^<]+)<\/Prefix>[\s\S]*?<\/CommonPrefixes>/g
RECURSIVE PrefixesFrom(_, _, _)
RECURSIVE PrefixesBlock(_, _, _)

PrefixesFrom(xml, from, prefixes) ==
    IF IndexOfFrom(xml, "<CommonPrefixes>", from) = 0
    THEN prefixes
    ELSE PrefixesBlock(xml, prefixes,
             TagMatchFrom(xml, "Prefix", "[^<]", 1,
                          IndexOfFrom(xml, "<CommonPrefixes>", from)
                              + Len("<CommonPrefixes>")))

\* m is the first <Prefix> after the opening tag
PrefixesBlock(xml, prefixes, m) ==
    IF ~m.found \/ IndexOfFrom(xml, "</CommonPrefixes>", m.next) = 0
    THEN prefixes
    ELSE PrefixesFrom(xml,
                      IndexOfFrom(xml, "</CommonPrefixes>", m.next)
                          + Len("</CommonPrefixes>"),
                      Append(prefixes, JsStr(m.text)))

parseListObjectsXML(xml) ==
    [via                   |-> "XML",
     objects               |-> ContentsFrom(xml, 1, <<>>),
     commonPrefixes        |-> PrefixesFrom(xml, 1, <<>>),
     isTruncated           |-> JsBool(TagMatch(xml, "IsTruncated", "\\w", 1).text = "true"),
     nextContinuationToken |-> IF TagMatch(xml, "NextContinuationToken", "[^<]", 1).found
                               THEN JsStr(TagMatch(xml, "NextContinuationToken",
                                                   "[^<]", 1).text)
                               ELSE JsUndef,
     keyCount              |-> IF Captured(TagMatch(xml, "KeyCount", "\\d", 1))
                               THEN JsNum(parseInt(TagMatch(xml, "KeyCount", "\\d", 1).text))
                               ELSE JsNum(0)]

\* try { return parseListObjectsJSON(JSON.parse(text)) } catch { XML }: json
\* is what JSON.parse came to, read what parseListObjectsJSON came to
TryJSON(responseText, json, read) ==
    IF json.ok /\ read.ok THEN read.result ELSE parseListObjectsXML(responseText)

parseListObjectsResponse(responseText) ==
    TryJSON(responseText, JSONparse(responseText),
            IF JSONparse(responseText).ok
            THEN parseListObjectsJSON(JSONparse(responseText).value)
            ELSE TypeError)

(***************************************************************************)
(* The TOSClient whose operations take options (src/unnamed/part_001, and  *)
(* part_002 which adds list).  A JavaScript object is kept as its entries   *)
(* <<name, value>> in insertion order.  The objects an operation can reach  *)
(* are kept in cells: the caller's options object, the objects its headers  *)
(* and metadata properties refer to, and the objects the operation itself   *)
(* creates (customHeaders, and the options updateMetadata hands to copy).   *)
(***************************************************************************)
\* if (value) on an optional string
Truthy(o) == o # None /\ o[1] # ""

\* options.headers and options.metadata of any options object
OptField(options, f) == IF f \in DOMAIN options THEN options[f] ELSE None

\* The cells when an operation is called with options
CallerHeap(options) ==
    [options       |-> Some(options),
     headers       |-> OptField(options, "headers"),
     metadata      |-> OptField(options, "metadata"),
     customHeaders |-> None,
     copyOptions   |-> None]

\* The cells of an operation that takes no options
NoHeap ==
    [options |-> None, headers |-> None, metadata |-> None,
     customHeaders |-> None, copyOptions |-> None]

\* The caller's options object as the cells hold it
CallerAfter(heap) ==
    IF heap.options = None
    THEN None
    ELSE Some([f \in DOMAIN heap.options[1] |->
                 IF f = "headers" THEN heap.headers
                 ELSE IF f = "metadata" THEN heap.metadata
                 ELSE heap.options[1][f]])

\* Faulty variant of Spread: no copy, the result is the source object itself.
SpreadAliased(heap, fresh, source) ==
    IF heap[source] = None
    THEN [heap |-> [heap EXCEPT ![fresh] = Some(<<>>)], ref |-> fresh]
    ELSE [heap |-> heap, ref |-> source]

\* { ...source }: a new object in cell fresh with the entries of the source
\* (none when the source is undefined); ref is the cell of the result.
Spread(heap, fresh, source) ==
    [heap |-> [heap EXCEPT ![fresh] = Some(OrElse(heap[source], <<>>))],
     ref  |-> fresh]

\* h.ref[name] = value
Store(h, name, value) ==
    [h EXCEPT !.heap[h.ref] = Some(SetProp(@[1], name, value))]

\* if (option) h.ref[name] = option
StoreIf(h, name, option) ==
    IF Truthy(option) THEN Store(h, name, option[1]) ELSE h

\* for (const [key, value] of entries) h.ref[prefix + key] = value
RECURSIVE StoreEntries(_, _, _)

StoreEntries(h, prefix, entries) ==
    IF entries = <<>>
    THEN h
    ELSE StoreEntries(Store(h, prefix \o Head(entries)[1], Head(entries)[2]),
                      prefix, Tail(entries))

\* if (options.metadata) for ... of Object.entries(options.metadata)
StoreMetadata(h) ==
    IF h.heap.metadata = None
    THEN h
    ELSE StoreEntries(h, "x-tos-meta-", h.heap.metadata[1])

\* Date.prototype.toUTCString: "Wed, 31 Dec 2025 00:00:00 GMT"
DayNames == <<"Sun", "Mon", "Tue", "Wed", "Thu", "Fri", "Sat">>
MonthNames ==
    <<"Jan", "Feb", "Mar", "Apr", "May", "Jun",
      "Jul", "Aug", "Sep", "Oct", "Nov", "Dec">>

toUTCString(d) ==
    DayNames[((d.day + 4) % 7) + 1] \o ", " \o Pad2(getUTCDate(d)) \o " "
        \o MonthNames[getUTCMonth(d) + 1] \o " "
        \o PadStart(ToString(getUTCFullYear(d)), 4, "0") \o " "
        \o Pad2(getUTCHours(d)) \o ":" \o Pad2(getUTCMinutes(d)) \o ":"
        \o Pad2(getUTCSeconds(d)) \o " GMT"

\* The customHeaders upload builds of its options
UploadCustomHeaders(heap) ==
    LET o  == heap.options[1]
        h0 == Spread(heap, "customHeaders", "headers")
        h1 == StoreIf(h0, "Cache-Control", o.cacheControl)
        h2 == StoreIf(h1, "Content-Disposition", o.contentDisposition)
        h3 == StoreIf(h2, "Content-Encoding", o.contentEncoding)
        h4 == StoreIf(h3, "Content-Language", o.contentLanguage)
        h5 == IF o.expires = None
              THEN h4
              ELSE Store(h4, "Expires", toUTCString(o.expires[1]))
    IN  StoreMetadata(h5)

\* The options object an operation of this client hands to signTOSRequest
ClientSignOptionsWith(method, bucket, key, contentType, contentSha256, customHeaders, queryString) ==
    [method          |-> method,
     bucket          |-> bucket,
     key             |-> key,
     region          |-> client.region,
     endpoint        |-> client.endpoint,
     accessKeyId     |-> client.accessKeyId,
     secretAccessKey |-> None,
     accessKeySecret |-> Some(client.accessKeySecret),
     queryString     |-> queryString,
     customHeaders   |-> customHeaders,
     contentType     |-> contentType,
     contentSha256   |-> Some(contentSha256),
     date            |-> None,
     debug           |-> client.debug]

\* What an operation was called with: data is the value handed to upload,
\* options the caller's options object, source the object copy reads.
Operation(op, bucket, key, data, options, source) ==
    [op |-> op, bucket |-> bucket, key |-> key, data |-> data.kind,
     input |-> data, options |-> options, source |-> source]

\* The operation o with what came of it; heap holds the caller's objects
\* as the operation leaves them.
Outcome(o, heap, status, error, returned, body, requests, result) ==
    o @@ [optionsAfter |-> CallerAfter(heap),
          status |-> status, error |-> error, returned |-> returned,
          body |-> body, requests |-> requests, result |-> result]

\* What follows the await of signTOSRequest: send one request, and throw on
\* a response that is not ok.  r is the outcome of the signing call.
FetchFor(r, o, heap, method, url, body, verb, resp) ==
    /\ Signed(r, o.op)
    /\ IF r.status = "rejected"
       THEN /\ ops' = Append(ops, Outcome(o, heap, "rejected", r.error, FALSE,
                                          <<>>, 0, None))
            /\ http' = http
       ELSE /\ http' = Append(http, [method |-> method, url |-> url,
                                     headers |-> r.headers, body |-> body])
            /\ ops' = Append(ops,
                  IF ~resp.ok
                  THEN Outcome(o, heap, "rejected",
                           "Failed to " \o verb \o ": "
                               \o ToString(resp.status) \o " " \o resp.text,
                           FALSE, <<>>, 1, None)
                  ELSE Outcome(o, heap, "resolved", "", FALSE,
                           IF o.op = "download" THEN resp.body ELSE <<>>, 1,
                           IF o.op = "list"
                           THEN Some(parseListObjectsResponse(resp.text))
                           ELSE None))

\* No data: the operation is not an upload
NoData ==
    [kind |-> "none", bytes |-> <<>>, type |-> "", byteOffset |-> 0,
     byteLength |-> 0, shared |-> FALSE]

\* The operations of this client run one after another, as many as MaxCalls
CanOperate == Len(calls) < MaxCalls /\ Len(ops) < MaxCalls

uploadWith(bucket, key, data, options) ==
    /\ CanOperate
    /\ IF ~IsSupported(data)
       THEN /\ ops' = Append(ops,
                  Outcome(Operation("upload", bucket, key, data, Some(options), None),
                          CallerHeap(options), "rejected",
                          "Unsupported data type. Must be Blob, ArrayBuffer, or Uint8Array",
                          FALSE, <<>>, 0, None))
            /\ UNCHANGED <<oracle, calls, console, http>>
       ELSE LET arrayBuffer   == ArrayBufferOf(data)
                contentType   == UploadContentType(data, options)
                hashBuffer    == subtleDigest(arrayBuffer, oracle)
                contentSha256 == bufferToHex(hashBuffer.value)
                h             == UploadCustomHeaders(CallerHeap(options))
            IN  \E resp \in Responses :
                    FetchFor(signTOSRequest(
                                 ClientSignOptionsWith("PUT", bucket, key,
                                     Some(contentType), contentSha256,
                                     h.heap[h.ref], None),
                                 now, hashBuffer.oracle),
                             Operation("upload", bucket, key, data, Some(options), None),
                             h.heap, "PUT", Url(bucket, key), arrayBuffer,
                             "upload to TOS", resp)
    /\ UNCHANGED <<now, client, inflight, listing, script>>

downloadWith(bucket, key, options) ==
    /\ CanOperate
    /\ LET h == Spread(CallerHeap(options), "customHeaders", "headers")
       IN  \E resp \in Responses :
               FetchFor(signTOSRequest(
                            ClientSignOptionsWith("GET", bucket, key, None,
                                "UNSIGNED-PAYLOAD", h.heap[h.ref], None),
                            now, oracle),
                        Operation("download", bucket, key, NoData, Some(options), None),
                        h.heap, "GET", Url(bucket, key), <<>>,
                        "download from TOS", resp)
    /\ UNCHANGED <<now, client, inflight, listing, script>>

deleteAt(bucket, key) ==
    /\ CanOperate
    /\ \E resp \in Responses :
           FetchFor(signTOSRequest(
                        ClientSignOptionsWith("DELETE", bucket, key, None,
                            "UNSIGNED-PAYLOAD", None, None),
                        now, oracle),
                    Operation("delete", bucket, key, NoData, None, None),
                    NoHeap, "DELETE", Url(bucket, key), <<>>,
                    "delete from TOS", resp)
    /\ UNCHANGED <<now, client, inflight, listing, script>>

\* What follows the await of signTOSRequest in exists: whatever signing or
\* fetch throws is caught and answered with false.
HeadFetchFor(r, o) ==
    /\ Signed(r, "exists")
    /\ IF r.status = "rejected"
       THEN /\ ops' = Append(ops, Outcome(o, NoHeap, "resolved", "", FALSE,
                                          <<>>, 0, None))
            /\ http' = http
       ELSE \E resp \in Responses \cup {NoResponse} :
            /\ http' = Append(http, [method |-> "HEAD", url |-> Url(o.bucket, o.key),
                                     headers |-> r.headers, body |-> <<>>])
            /\ ops' = Append(ops, Outcome(o, NoHeap, "resolved", "", resp.ok,
                                          <<>>, 1, None))

existsAt(bucket, key) ==
    /\ CanOperate
    /\ HeadFetchFor(signTOSRequest(
                        ClientSignOptionsWith("HEAD", bucket, key, None,
                            "UNSIGNED-PAYLOAD", None, None),
                        now, oracle),
                    Operation("exists", bucket, key, NoData, None, None))
    /\ UNCHANGED <<now, client, inflight, listing, script>>

\* The keys of the objects: the key of the tests, and one with a space, the
\* reserved characters '?', '#' and '%', and a character outside ASCII.
PlainKey == "test-file.txt"
ReservedKey == "dir/a b?é#%41"
ObjectKeys == {PlainKey, ReservedKey}

NoUploadOptions ==
    [contentType |-> None, headers |-> None, cacheControl |-> None,
     contentDisposition |-> None, contentEncoding |-> None,
     contentLanguage |-> None, expires |-> None, metadata |-> None]

\* 2025-12-31T00:00:00.000Z
LastDayOf2025 == [day |-> 20453, ms |-> 0]

\* Every option of upload given
FullUploadOptions ==
    [contentType        |-> Some("text/html"),
     headers            |-> Some(<< <<"x-tos-acl", "public-read">> >>),
     cacheControl       |-> Some("max-age=3600, public"),
     contentDisposition |-> Some("attachment"),
     contentEncoding    |-> Some("gzip"),
     contentLanguage    |-> Some("en-US"),
     expires            |-> Some(LastDayOf2025),
     metadata           |-> Some(<< <<"author", "me">> >>)]

\* options.headers names a header that an option of its own also sets, and
\* an option is the empty string
MixedUploadOptions ==
    [NoUploadOptions EXCEPT
        !.headers = Some(<< <<"Cache-Control", "no-cache">> >>),
        !.cacheControl = Some("no-store"),
        !.contentEncoding = Some("")]

BlobData ==
    [kind |-> "Blob", bytes |-> <<104, 105>>, type |-> "text/plain",
     byteOffset |-> 0, byteLength |-> 2, shared |-> FALSE]
ArrayBufferData ==
    [kind |-> "ArrayBuffer", bytes |-> <<0, 255>>, type |-> "",
     byteOffset |-> 0, byteLength |-> 2, shared |-> FALSE]
\* A Uint8Array viewing bytes 1 and 2 of a four-byte ArrayBuffer
ViewData ==
    [kind |-> "Uint8Array", bytes |-> <<1, 2, 3, 4>>, type |-> "",
     byteOffset |-> 1, byteLength |-> 2, shared |-> FALSE]
\* The same view on a SharedArrayBuffer
SharedViewData == [ViewData EXCEPT !.shared = TRUE]
StringData ==
    [kind |-> "string", bytes |-> <<>>, type |-> "",
     byteOffset |-> 0, byteLength |-> 0, shared |-> FALSE]

\* The uploads of the model
Uploads ==
    {[key |-> PlainKey, data |-> d, options |-> NoUploadOptions] :
        d \in {BlobData, ArrayBufferData, ViewData, SharedViewData, StringData}}
    \cup {[key |-> PlainKey, data |-> BlobData, options |-> MixedUploadOptions],
          [key |-> ReservedKey, data |-> BlobData, options |-> FullUploadOptions]}

\* The downloads of the model
Downloads ==
    {[key |-> PlainKey, options |-> [headers |-> None]],
     [key |-> ReservedKey,
      options |-> [headers |-> Some(<< <<"Range", "bytes=0-1">> >>)]]}

\* signTOSRequest called by the user of the library with the options this
\* client passes, the secret under the name the signer reads
CustomOptions ==
    {BucketRootOptions,
     [BaseOptions EXCEPT
        !.customHeaders = Some(<< <<"Cache-Control", "max-age=3600, public">>,
                                  <<"x-tos-copy-source", "/test-bucket/test-file.txt">> >>)]}

\* h.ref.field = value on an object kept as a record
Assign(h, field, value) ==
    [h EXCEPT !.heap[h.ref] =
        Some([f \in DOMAIN @[1] \cup {field} |->
                 IF f = field THEN value ELSE @[1][f]])]

\* The customHeaders copy builds of the options object in a cell
CopyCustomHeaders(heap, cell, sourceBucket, sourceKey) ==
    LET o  == heap[cell][1]
        h0 == Spread(heap, "customHeaders", "headers")
        h1 == Store(h0, "x-tos-copy-source", "/" \o sourceBucket \o "/" \o sourceKey)
        h2 == StoreIf(h1, "x-tos-metadata-directive", OptField(o, "metadataDirective"))
        h3 == StoreIf(h2, "Cache-Control", OptField(o, "cacheControl"))
        h4 == StoreIf(h3, "Content-Disposition", OptField(o, "contentDisposition"))
    IN  StoreMetadata(h4)

\* The body of copy, run for the operation o on the options object in a cell
CopyObject(o, heap, cell, sourceBucket, sourceKey, destinationBucket, destinationKey, h) ==
    \E resp \in Responses :
        FetchFor(signTOSRequest(
                     ClientSignOptionsWith("PUT", destinationBucket, destinationKey,
                         Some(FirstTruthy(OptField(heap[cell][1], "contentType"), None,
                                          "application/octet-stream")),
                         "UNSIGNED-PAYLOAD", h.heap[h.ref], None),
                     now, oracle),
                 o, h.heap, "PUT", Url(destinationBucket, destinationKey), <<>>,
                 "copy object in TOS", resp)

copy(sourceBucket, sourceKey, destinationBucket, destinationKey, options) ==
    /\ CanOperate
    /\ CopyObject(Operation("copy", destinationBucket, destinationKey, NoData,
                            Some(options),
                            Some([bucket |-> sourceBucket, key |-> sourceKey])),
                  CallerHeap(options), "options",
                  sourceBucket, sourceKey, destinationBucket, destinationKey,
                  CopyCustomHeaders(CallerHeap(options), "options",
                                    sourceBucket, sourceKey))
    /\ UNCHANGED <<now, client, inflight, listing, script>>

\* { ...options, metadataDirective: 'REPLACE' }
ReplaceDirective(heap) ==
    Assign(Spread(heap, "copyOptions", "options"), "metadataDirective", Some("REPLACE"))

\* The body of updateMetadata: c is the options object it hands to copy
UpdateObject(o, bucket, key, c) ==
    CopyObject(o, c.heap, c.ref, bucket, key, bucket, key,
               CopyCustomHeaders(c.heap, c.ref, bucket, key))

updateMetadata(bucket, key, options) ==
    /\ CanOperate
    /\ UpdateObject(Operation("updateMetadata", bucket, key, NoData, Some(options),
                              Some([bucket |-> bucket, key |-> key])),
                    bucket, key, ReplaceDirective(CallerHeap(options)))
    /\ UNCHANGED <<now, client, inflight, listing, script>>

\* const ONE_YEAR_CACHE of update-tos-cache-control.ts
ONE_YEAR_CACHE == "public, max-age=31536000, immutable"

NoCopyOptions ==
    [headers |-> None, cacheControl |-> None, contentDisposition |-> None,
     contentType |-> None, metadata |-> None, metadataDirective |-> None]

FullCopyOptions ==
    [headers            |-> Some(<< <<"x-tos-acl", "private">> >>),
     cacheControl       |-> Some("no-cache"),
     contentDisposition |-> Some("inline"),
     contentType        |-> Some("text/css"),
     metadata           |-> Some(<< <<"author", "me">> >>),
     metadataDirective  |-> Some("COPY")]

\* The copies of the model
Copies ==
    {[sourceKey |-> PlainKey, destinationKey |-> "copy.txt", options |-> NoCopyOptions],
     [sourceKey |-> ReservedKey, destinationKey |-> PlainKey, options |-> FullCopyOptions]}

\* The options updateMetadata is given: those of the script, and every
\* option with a directive of the caller's
MetadataOptions ==
    {[cacheControl |-> Some(ONE_YEAR_CACHE)], FullCopyOptions}

\* a comes before b in the order of Array.prototype.sort(): by code units
RECURSIVE StringLess(_, _)

StringLess(a, b) ==
    IF b = "" THEN FALSE
    ELSE IF a = "" THEN TRUE
    ELSE IF At(a, 1) = At(b, 1)
    THEN StringLess(SubSeq(a, 2, Len(a)), SubSeq(b, 2, Len(b)))
    ELSE CodeUnit[At(a, 1)] < CodeUnit[At(b, 1)]

\* Object.keys(queryParams).sort()
RECURSIVE SortStrings(_)

SortStrings(S) ==
    IF S = {}
    THEN <<>>
    ELSE LET m == CHOOSE x \in S : \A y \in S \ {x} : StringLess(x, y)
         IN  <<m>> \o SortStrings(S \ {m})

\* if (options.maxKeys) queryParams['max-keys'] = String(options.maxKeys)
MaxKeysParam(maxKeys) ==
    IF maxKeys # None /\ maxKeys[1] # 0 THEN Some(ToString(maxKeys[1])) ELSE None

\* The queryParams list builds of its options
QueryParams(options) ==
    LET q0 == << <<"list-type", "2">> >>
        q1 == IF Truthy(options.prefix)
              THEN SetProp(q0, "prefix", options.prefix[1]) ELSE q0
        q2 == IF Truthy(options.delimiter)
              THEN SetProp(q1, "delimiter", options.delimiter[1]) ELSE q1
        q3 == IF Truthy(MaxKeysParam(options.maxKeys))
              THEN SetProp(q2, "max-keys", MaxKeysParam(options.maxKeys)[1]) ELSE q2
        q4 == IF Truthy(options.continuationToken)
              THEN SetProp(q3, "continuation-token", options.continuationToken[1]) ELSE q3
    IN  IF Truthy(options.startAfter)
        THEN SetProp(q4, "start-after", options.startAfter[1]) ELSE q4

\* queryParams[key]
ParamValue(queryParams, key) ==
    queryParams[CHOOSE i \in 1..Len(queryParams) : queryParams[i][1] = key][2]

\* sortedKeys.map(key => encodeURIComponent(key) + '=' +
\* encodeURIComponent(queryParams[key])).join('&')
QueryStringOf(queryParams, sortedKeys) ==
    Join([i \in 1..Len(sortedKeys) |->
             encodeURIComponent(sortedKeys[i]) \o "="
                 \o encodeURIComponent(ParamValue(queryParams, sortedKeys[i]))],
         "&")

\* The query string list builds of its options
QueryString(options) ==
    QueryStringOf(QueryParams(options),
                  SortStrings({QueryParams(options)[i][1] :
                                  i \in 1..Len(QueryParams(options))}))

\* What the server may answer to a listing
ListResponses ==
    { [ok |-> TRUE, status |-> 200,
       text |-> "{\"KeyCount\":1,\"Contents\":[{\"Key\":\"a\",\"ETag\":\"e\"}]}",
       body |-> <<>>],
      [ok |-> FALSE, status |-> 403, text |-> "AccessDenied", body |-> <<>>] }

\* The body of list: queryString and customHeaders are built
ListObjectsWith(o, bucket, queryString, h, resp) ==
    FetchFor(signTOSRequest(
                 ClientSignOptionsWith("GET", bucket, "", None,
                     "UNSIGNED-PAYLOAD", h.heap[h.ref], Some(queryString)),
                 now, oracle),
             o, h.heap, "GET", Url(bucket, "") \o "?" \o queryString, <<>>,
             "list objects in TOS", resp)

ListObjects(o, bucket, queryString, h) ==
    \E resp \in ListResponses : ListObjectsWith(o, bucket, queryString, h, resp)

list(bucket, options) ==
    /\ CanOperate
    /\ ListObjects(Operation("list", bucket, "", NoData, Some(options), None),
                   bucket, QueryString(options),
                   Spread(CallerHeap(options), "customHeaders", "headers"))
    /\ UNCHANGED <<now, client, inflight, listing, script>>

NoListOptions ==
    [prefix |-> None, delimiter |-> None, maxKeys |-> None,
     continuationToken |-> None, startAfter |-> None, headers |-> None]

\* The options list is given: none, every one, and values that are not
\* truthy beside the page size of the script
ListOptionsSet ==
    {NoListOptions,
     [prefix            |-> Some("dir/a b"),
      delimiter         |-> Some("/"),
      maxKeys           |-> Some(10),
      continuationToken |-> Some("t+1="),
      startAfter        |-> Some("k"),
      headers           |-> Some(<< <<"x-tos-request-payer", "requester">> >>)],
     [NoListOptions EXCEPT !.maxKeys = Some(1000), !.prefix = Some(""),
                           !.continuationToken = None]}

\* The first position from i on of a character of a set; Len(s) + 1 when
\* there is none
FirstOf(s, set, from) ==
    LET at == {k \in from..Len(s) : At(s, k) \in set}
    IN  IF at = {} THEN Len(s) + 1 ELSE CHOOSE k \in at : \A m \in at : k <= m

\* The characters of the model's alphabet that the URL parser percent-encodes
\* in a path, beside the controls and what lies above "~"
PathEncoded == {" ", "\"", "#", "<", ">", "?", "^", "{", "}"}

RECURSIVE UrlEncodePath(_, _)

UrlEncodePath(s, i) ==
    IF i > Len(s) THEN ""
    ELSE (IF At(s, i) \in PathEncoded \/ CodeUnit[At(s, i)] > 126
               \/ CodeUnit[At(s, i)] < 32
          THEN PercentBytes(Utf8Char(At(s, i)))
          ELSE At(s, i))
         \o UrlEncodePath(s, i + 1)

\* What fetch makes of the URL string it is given (new URL(url)), as far as
\* the host and the path go: tabs and line breaks are dropped; the host ends
\* at the first "/", "?" or "#" and is lower-cased; the path ends at the
\* first "?" or "#", and is percent-encoded where it has to be ("%" is left
\* as it is).  The keys of the model have no "." or ".." segments, which the
\* parser would resolve, and its buckets are ASCII.
ParseUrlAt(url, hostEnd, pathEnd) ==
    [host     |-> LowerCase(SubSeq(url, Len("https://") + 1, hostEnd - 1)),
     pathname |-> IF pathEnd = hostEnd
                  THEN "/"
                  ELSE UrlEncodePath(SubSeq(url, hostEnd, pathEnd - 1), 1)]

ParseUrlFrom(url) ==
    ParseUrlAt(url, FirstOf(url, {"/", "?", "#"}, Len("https://") + 1),
               FirstOf(url, {"?", "#"}, Len("https://") + 1))

ParseUrl(url) ==
    ParseUrlFrom(ReplaceAll(ReplaceAll(ReplaceAll(url, "\t", ""), "\n", ""), "\r", ""))

\* The operations of this client, and signTOSRequest called with the options
\* they pass.
NextClient ==
    \/ \E options \in CustomOptions : Sign(options)
    \/ \E bucket \in Buckets, u \in Uploads :
           uploadWith(bucket, u.key, u.data, u.options)
    \/ \E bucket \in Buckets, d \in Downloads :
           downloadWith(bucket, d.key, d.options)
    \/ \E bucket \in Buckets : deleteAt(bucket, PlainKey)
    \/ \E bucket \in Buckets, key \in ObjectKeys : existsAt(bucket, key)
    \/ \E bucket \in Buckets, c \in Copies :
           copy(bucket, c.sourceKey, bucket, c.destinationKey, c.options)
    \/ \E bucket \in Buckets, options \in MetadataOptions :
           updateMetadata(bucket, PlainKey, options)
    \/ \E bucket \in Buckets, options \in ListOptionsSet : list(bucket, options)

SpecClient == Init /\ [][NextClient]_vars

(***************************************************************************)
(* The claims on the operations of the client.                             *)
(***************************************************************************)
\* The store answered the request of an operation, and not with ok
RefusedByStore(o) ==
    o.requests = 1 /\ (o.status = "rejected" \/ (o.op = "exists" /\ ~o.returned))

\* C21: the round trip of the integration tests takes place.  When upload
\* is given a Blob, an ArrayBuffer or a Uint8Array and the store refuses no
\* request, the upload resolves, an exists of the same key that follows it
\* returns true, and a download of the same key that follows it resolves.
C21_RoundTrip ==
    \A i, j \in 1..Len(ops) :
        (/\ i < j
         /\ ops[i].op = "upload"
         /\ IsSupported(ops[i].input)
         /\ ops[j].op \in {"exists", "download"}
         /\ ops[j].bucket = ops[i].bucket
         /\ ops[j].key = ops[i].key
         /\ ~RefusedByStore(ops[i])
         /\ ~RefusedByStore(ops[j]))
        => /\ ops[i].status = "resolved"
           /\ ops[j].status = "resolved"
           /\ ops[j].op = "exists" => ops[j].returned

\* The signing calls the operations made, in the order they happened: the
\* i-th is that of the i-th operation of SigningOps.
OfOperation(c) == c.origin # "direct"
OperationCalls == SelectSeq(calls, OfOperation)

\* A header set holds every entry of an object, under its name
Carries(headers, entries) ==
    \A i \in 1..Len(entries) :
        HeadersGet(headers, entries[i][1]) = Some(NormalizeValue(entries[i][2]))

\* The five headers of a signed request
FiveSigned(headers) ==
    {"host", "x-tos-date", "x-tos-content-sha256", "authorization", "content-type"}
        \subseteq DOMAIN headers

\* The headers the options of an upload ask for, as the claim lists them
OptionHeaders(options) ==
    (IF Truthy(options.cacheControl)
     THEN << <<"Cache-Control", options.cacheControl[1]>> >> ELSE <<>>)
    \o (IF Truthy(options.contentDisposition)
        THEN << <<"Content-Disposition", options.contentDisposition[1]>> >> ELSE <<>>)
    \o (IF Truthy(options.contentEncoding)
        THEN << <<"Content-Encoding", options.contentEncoding[1]>> >> ELSE <<>>)
    \o (IF Truthy(options.contentLanguage)
        THEN << <<"Content-Language", options.contentLanguage[1]>> >> ELSE <<>>)
    \o (IF options.expires # None
        THEN << <<"Expires", toUTCString(options.expires[1])>> >> ELSE <<>>)
    \o (IF options.metadata # None
        THEN [i \in 1..Len(options.metadata[1]) |->
                 <<"x-tos-meta-" \o options.metadata[1][i][1], options.metadata[1][i][2]>>]
        ELSE <<>>)

\* C22: the PUT of an upload with options carries the headers of its
\* options (Cache-Control, Content-Disposition, Content-Encoding,
\* Content-Language, Expires, x-tos-meta-<name>, and every entry of
\* options.headers that no option of its own replaces) beside the five signed
\* ones: the header set signTOSRequest returns, the only headers upload
\* hands to fetch, holds every entry of the customHeaders it was given, and
\* every upload of supported data sends such a PUT.
C22_OptionHeadersSent ==
    /\ \A c \in Calls :
           (c.status = "resolved" /\ c.options.customHeaders # None)
           => Carries(c.headers, c.options.customHeaders[1])
    /\ \A o \in Ops :
           (o.op = "upload" /\ IsSupported(o.input))
           => \E k \in 1..Len(http) :
                  /\ http[k].method = "PUT"
                  /\ http[k].url = Url(o.bucket, o.key)
                  /\ FiveSigned(http[k].headers)
                  /\ Carries(http[k].headers, OptionHeaders(o.options[1]))
                  /\ o.options[1].headers # None
                     => \A i \in 1..Len(o.options[1].headers[1]) :
                            HeadersGet(http[k].headers, o.options[1].headers[1][i][1])
                                # None

\* C23: copy sends one PUT without a body to the destination, with the
\* header x-tos-copy-source set to "/" + sourceBucket + "/" + sourceKey, and
\* updateMetadata sends the request of a copy of the object onto itself with
\* x-tos-metadata-directive set to REPLACE.
C23_CopyRequest ==
    \A o \in Ops :
        o.op \in {"copy", "updateMetadata"}
        => /\ o.op = "updateMetadata"
              => o.source = Some([bucket |-> o.bucket, key |-> o.key])
           /\ \E k \in 1..Len(http) :
                  /\ http[k].method = "PUT"
                  /\ http[k].url = Url(o.bucket, o.key)
                  /\ http[k].body = <<>>
                  /\ HeadersGet(http[k].headers, "x-tos-copy-source")
                         = Some("/" \o o.source[1].bucket \o "/" \o o.source[1].key)
                  /\ o.op = "updateMetadata"
                     => HeadersGet(http[k].headers, "x-tos-metadata-directive")
                            = Some("REPLACE")

\* C24: the query string list builds ("list-type=2" and one parameter for
\* each option supplied, encoded, in the order of their names) is the query
\* line of the canonical request that is signed.
C24_ListQuerySigned ==
    \A i \in 1..Len(OperationCalls) :
        SigningOps[i].op = "list"
        => /\ OperationCalls[i].options.queryString
                  = Some(QueryString(SigningOps[i].options[1]))
           /\ Lines(OperationCalls[i].canonicalRequest)[3]
                  = QueryString(SigningOps[i].options[1])

\* The bytes upload is given: the content of a Blob, an ArrayBuffer, and the
\* bytes a Uint8Array views
ViewedBytes(data) ==
    IF data.kind = "Uint8Array"
    THEN SubSeq(data.bytes, data.byteOffset + 1, data.byteOffset + data.byteLength)
    ELSE data.bytes

\* C25: the payload hash upload has signed is the lower-case hexadecimal
\* SHA-256 of the bytes of its data (the content of a Blob, an ArrayBuffer,
\* the bytes byteOffset .. byteOffset + byteLength - 1 that a Uint8Array
\* views, whatever buffer is behind the view), and the body of its PUT is
\* those bytes.
C25_BodyIsData ==
    /\ \A i \in 1..Len(OperationCalls) :
           SigningOps[i].op = "upload"
           => OperationCalls[i].options.contentSha256
                  = Some(HexOf(Sha256(ViewedBytes(SigningOps[i].input))))
    /\ \A k \in 1..Len(http) :
           http[k].method = "PUT"
           => \E o \in Ops : /\ o.op \in {"upload", "copy", "updateMetadata"}
                             /\ http[k].url = Url(o.bucket, o.key)
                             /\ http[k].body = ViewedBytes(o.input)

\* The value of a hexadecimal digit
IsHexDigit(c) == Occurs(HexDigitsUpper, c) \/ Occurs(HexDigitsLower, c)
HexValue(c) ==
    IF Occurs(HexDigitsUpper, c)
    THEN IndexIn(HexDigitsUpper, c) - 1
    ELSE IndexIn(HexDigitsLower, c) - 1

\* The bytes a percent-encoded path stands for
RECURSIVE PercentDecodeFrom(_, _)

PercentDecodeFrom(s, i) ==
    IF i > Len(s) THEN <<>>
    ELSE IF /\ At(s, i) = "%"
            /\ i + 2 <= Len(s)
            /\ IsHexDigit(At(s, i + 1))
            /\ IsHexDigit(At(s, i + 2))
    THEN <<16 * HexValue(At(s, i + 1)) + HexValue(At(s, i + 2))>>
             \o PercentDecodeFrom(s, i + 3)
    ELSE Utf8Char(At(s, i)) \o PercentDecodeFrom(s, i + 1)

PercentDecode(s) == PercentDecodeFrom(s, 1)

\* C26: for every operation, the path of the URL it addresses
\* ("https://" + bucket + "." + endpoint + "/" + key) stands for the same
\* bytes as the canonical URI it has signed, and the host of the URL is the
\* host it has signed; so for the keys with "?", "#", "%", a space or a
\* character outside ASCII.
C26_UrlDenotesSignedPath ==
    \A i \in 1..Len(OperationCalls) :
        /\ PercentDecode(ParseUrl(Url(SigningOps[i].bucket, SigningOps[i].key)).pathname)
               = PercentDecode(Lines(OperationCalls[i].canonicalRequest)[2])
        /\ "host:" \o ParseUrl(Url(SigningOps[i].bucket, SigningOps[i].key)).host
               = Lines(OperationCalls[i].canonicalRequest)[4]

\* Two operations were called with the same values
SameOperation(a, b) ==
    \A f \in {"op", "bucket", "key", "input", "options", "source"} : a[f] = b[f]

\* C27: no operation of the client changes what outlives it: the client's
\* configuration (region, endpoint, accessKeyId, secret, debug) is the one
\* it was constructed with, the caller's options object, with the records
\* its headers and metadata refer to, is after the operation what it was
\* before, and two operations called with the same values hand the signer
\* the same options, whatever ran before them.
C27_NothingOutlivesTheCall ==
    /\ client = ClientOptions
    /\ \A o \in Ops : o.optionsAfter = o.options
    /\ \A i, j \in 1..Len(OperationCalls) :
           SameOperation(SigningOps[i], SigningOps[j])
           => OperationCalls[i].options = OperationCalls[j].options

\* Two operations have run, the later one an upload whose options carry
\* headers, metadata and Cache-Control; the customHeaders it handed to the
\* signer hold more than the caller's headers, and the caller's options are
\* as they were.
C27_Witness ==
    /\ Len(ops) = 2
    /\ Len(OperationCalls) = 2
    /\ ops[2].op = "upload"
    /\ ops[2].options = Some(FullUploadOptions)
    /\ ops[2].optionsAfter = Some(FullUploadOptions)
    /\ OperationCalls[2].options.customHeaders # FullUploadOptions.headers
    /\ Len(OperationCalls[2].options.customHeaders[1]) > 1

(***************************************************************************)
(* The bodies a listing is answered with.  A report is what the server     *)
(* says of a page: the keys it lists, and KeyCount, IsTruncated and        *)
(* NextContinuationToken where it gives them; it is written as JSON or as  *)
(* XML, and parseListObjectsResponse reads the text.                       *)
(***************************************************************************)
Report(format, keyCount, isTruncated, token, keys) ==
    [format |-> format, keyCount |-> keyCount, isTruncated |-> isTruncated,
     token |-> token, keys |-> keys]

\* A string as JSON writes it
JsonString(str) ==
    "\"" \o ReplaceAll(ReplaceAll(str, "\\", "\\\\"), "\"", "\\\"") \o "\""

BoolText(b) == IF b THEN "true" ELSE "false"

\* The entry of a key in Contents; the ETag comes in double quotes
JsonEntry(key) ==
    "{\"Key\":" \o JsonString(key)
        \o ",\"LastModified\":\"2025-01-01T00:00:00.000Z\""
        \o ",\"ETag\":" \o JsonString("\"e-" \o key \o "\"")
        \o ",\"Size\":" \o ToString(Len(key))
        \o ",\"StorageClass\":\"STANDARD\"}"

XmlEntry(key) ==
    "<Contents><Key>" \o key \o "</Key>"
        \o "<LastModified>2025-01-01T00:00:00.000Z</LastModified>"
        \o "<ETag>\"e-" \o key \o "\"</ETag>"
        \o "<Size>" \o ToString(Len(key)) \o "</Size>"
        \o "<StorageClass>STANDARD</StorageClass></Contents>"

\* The members a report has, each written by one of two writers
Members(r, number, boolean, string, entries) ==
    (IF r.keyCount = None THEN <<>> ELSE <<number[r.keyCount[1]]>>)
        \o (IF r.isTruncated = None THEN <<>> ELSE <<boolean[r.isTruncated[1]]>>)
        \o (IF r.token = None THEN <<>> ELSE <<string[r.token[1]]>>)
        \o (IF r.keys = <<>> THEN <<>> ELSE <<entries>>)

RenderJSON(r) ==
    "{" \o Join(<<"\"Name\":\"test-bucket\"">>
                    \o Members(r,
                           [n \in {OrElse(r.keyCount, 0)} |-> "\"KeyCount\":" \o ToString(n)],
                           [b \in BOOLEAN |-> "\"IsTruncated\":" \o BoolText(b)],
                           [t \in {OrElse(r.token, "")} |->
                               "\"NextContinuationToken\":" \o JsonString(t)],
                           "\"Contents\":["
                               \o Join([i \in 1..Len(r.keys) |-> JsonEntry(r.keys[i])], ",")
                               \o "]"),
                ",")
        \o "}"

RenderXML(r) ==
    "<?xml version=\"1.0\" encoding=\"UTF-8\"?><ListBucketResult>"
        \o Join(<<"<Name>test-bucket</Name>">>
                    \o Members(r,
                           [n \in {OrElse(r.keyCount, 0)} |->
                               "<KeyCount>" \o ToString(n) \o "</KeyCount>"],
                           [b \in BOOLEAN |->
                               "<IsTruncated>" \o BoolText(b) \o "</IsTruncated>"],
                           [t \in {OrElse(r.token, "")} |->
                               "<NextContinuationToken>" \o t
                                   \o "</NextContinuationToken>"],
                           Join([i \in 1..Len(r.keys) |-> XmlEntry(r.keys[i])], "")),
                "")
        \o "</ListBucketResult>"

Render(r) == IF r.format = "JSON" THEN RenderJSON(r) ELSE RenderXML(r)

\* The pages a server reports: with and without KeyCount (the number of keys
\* when given), with and without IsTruncated, with and without a token
ListedKeys == {<<>>, <<"a.txt">>, <<"a.txt", "dir/b c.txt">>, <<"a.txt", "b", "c">>}

Reports ==
    {Report(format, keyCount, isTruncated, token, keys) :
        format \in {"JSON", "XML"},
        keyCount \in {None} \cup {Some(n) : n \in 0..3},
        isTruncated \in {None, Some(TRUE), Some(FALSE)},
        token \in {None, Some("t1")},
        keys \in ListedKeys}

ConsistentReports ==
    {r \in Reports : /\ r.keyCount \in {None, Some(Len(r.keys))}
                     /\ (r.token # None => r.isTruncated # None)}

\* A body and the report it is written of
Body(r, text) == [report |-> r, text |-> text, parsed |-> FALSE, result |-> None]

\* The bodies parseListObjectsResponse is given: every report written out,
\* the JSON text null, a JSON entry that has no ETag, an error text and the
\* empty body
ListBodies ==
    {Body(r, Render(r)) : r \in ConsistentReports}
        \cup {Body(Report("JSON", None, None, None, <<>>), "null"),
              Body(Report("JSON", None, None, None, <<"a.txt">>),
                   "{\"Contents\":[{\"Key\":\"a.txt\",\"Size\":5}]}"),
              Body(Report("XML", None, None, None, <<>>), "AccessDenied"),
              Body(Report("XML", None, None, None, <<>>), "")}

InitParse ==
    /\ now = StartInstant
    /\ oracle = <<>>
    /\ calls = <<>>
    /\ console = <<>>
    /\ client = ClientOptions
    /\ ops = <<>>
    /\ http = <<>>
    /\ inflight = <<>>
    /\ listing \in ListBodies
    /\ script = NoScript

\* return this.parseListObjectsResponse(responseText)
ReadListing ==
    /\ ~listing.parsed
    /\ listing' = [listing EXCEPT
                      !.parsed = TRUE,
                      !.result = Some(parseListObjectsResponse(listing.text))]
    /\ UNCHANGED <<now, oracle, calls, console, client, ops, http, inflight, script>>

NextParse == ReadListing

SpecParse == InitParse /\ [][NextParse]_vars

\* C30: a body that parses as JSON is read as JSON and any other body as
\* XML; in both formats the keyCount of the result is the KeyCount the
\* server reports when it reports one, and the number of objects of the
\* result when it reports none; isTruncated is true only when the response
\* says true.
C30_ListingRead ==
    listing.parsed =>
        /\ (listing.result[1].via = "JSON") = JSONparse(listing.text).ok
        /\ listing.result[1].keyCount
               = IF listing.report.keyCount # None
                 THEN JsNum(listing.report.keyCount[1])
                 ELSE JsNum(Len(listing.result[1].objects))
        /\ listing.result[1].isTruncated = JsBool(listing.report.isTruncated = Some(TRUE))

(***************************************************************************)
(* The script update-tos-cache-control.ts.  It runs from one await to the  *)
(* next: main up to the first call of the client, one turn of the loop of  *)
(* listAllObjects, one updateFileMetadata, one delay.  What it writes with *)
(* console.log and console.error is kept in out, without the pictograph    *)
(* that opens the lines.  The server answers the listings with the pages   *)
(* of server, one after the other.                                         *)
(***************************************************************************)
bucketName == "test-bucket"

\* process.argv.slice(2)
ScriptArgs ==
    {<<>>, <<"--help">>, <<"--dry-run">>, <<"--verbose">>, <<"b", "--dry-run">>,
     <<"a.txt">>, <<"a.txt", "dir/b c.txt">>, <<"a.txt", "b", "a.txt">>}

\* The pages the server has for the bucket: the last one is not truncated,
\* or is without a token
Servers ==
    {<<Report("JSON", Some(0), Some(FALSE), None, <<>>)>>,
     <<Report("JSON", Some(1), Some(TRUE), Some("t1"), <<"a.txt">>),
       Report("JSON", Some(2), Some(FALSE), None, <<"b", "c">>)>>,
     <<Report("XML", Some(1), Some(TRUE), Some("t1"), <<"a.txt">>),
       Report("XML", Some(1), Some(TRUE), Some("t2"), <<"b">>),
       Report("XML", Some(1), Some(TRUE), None, <<"dir/b c.txt">>)>>,
     <<Report("JSON", None, None, Some("t1"), <<"a.txt", "b">>)>>}

\* The script when it starts
Started(args, server) ==
    [pc |-> "main", mode |-> "", args |-> args, server |-> server, fetched |-> 0,
     allKeys |-> <<>>, continuationToken |-> JsUndef,
     keys |-> <<>>, i |-> 0, success |-> 0, failed |-> 0,
     listed |-> None, updated |-> None, exitCode |-> None, out |-> <<>>]

InitScript ==
    /\ now = StartInstant
    /\ oracle = <<>>
    /\ calls = <<>>
    /\ console = <<>>
    /\ client = ClientOptions
    /\ ops = <<>>
    /\ http = <<>>
    /\ inflight = <<>>
    /\ listing = NoListing
    /\ script \in {Started(args, server) : args \in ScriptArgs, server \in Servers}

\* console.log and console.error
Log(s, lines) == [s EXCEPT !.out = @ \o lines]

\* What main does of its arguments
ModeOf(args) ==
    IF \E k \in 1..Len(args) : args[k] = "--help" THEN "help"
    ELSE IF \E k \in 1..Len(args) : args[k] = "--dry-run" THEN "dry-run"
    ELSE IF Len(args) > 0 /\ ~StartsWith(args[1], "--") THEN "keys"
    ELSE "all"

\* updateFiles(keys) up to its first await
updateFilesBegun(s, keys) ==
    IF Len(keys) = 0
    THEN [s EXCEPT !.keys = keys, !.pc = "updated",
                   !.updated = Some([success |-> 0, failed |-> 0])]
    ELSE Log([s EXCEPT !.keys = keys, !.i = 0, !.success = 0, !.failed = 0,
                       !.pc = "updating"],
             <<"", "Updating " \o ToString(Len(keys)) \o " files with Cache-Control: "
                       \o ONE_YEAR_CACHE, "">>)

\* The lines the script writes before main, and main up to its first await
Banner ==
    <<"Starting TOS Cache-Control update script",
      "Bucket: " \o bucketName,
      "Region: " \o client.region,
      "Endpoint: " \o client.endpoint,
      "Cache-Control: " \o ONE_YEAR_CACHE,
      "">>

Usage ==
    <<"Usage:",
      "  bun run scripts/update-tos-cache-control.ts          # Update all files in bucket",
      "  bun run scripts/update-tos-cache-control.ts --dry-run # List files without updating",
      "  bun run scripts/update-tos-cache-control.ts key1 key2 # Update specific files">>

mainBegun(s, mode) ==
    IF mode = "help"
    THEN Log([s EXCEPT !.mode = mode, !.pc = "done"], Usage)
    ELSE IF mode = "keys"
    THEN updateFilesBegun(
             Log([s EXCEPT !.mode = mode],
                 <<"Updating " \o ToString(Len(s.args)) \o " specified files...">>),
             s.args)
    ELSE Log([s EXCEPT !.mode = mode, !.pc = "listing"],
             <<"Listing all objects in bucket...">>)

main ==
    /\ script.pc = "main"
    /\ script' = mainBegun(Log(script, Banner), ModeOf(script.args))
    /\ UNCHANGED <<now, oracle, calls, console, client, ops, http, inflight, listing>>

\* The summary main writes of what updateFiles returns
Summary(s, counts, total) ==
    Log([s EXCEPT !.pc = "done"],
        <<"", "==================================================",
          "Successfully updated: " \o ToString(counts.success),
          "Failed: " \o ToString(counts.failed)>>
            \o (IF total THEN <<"Total: " \o ToString(Len(s.keys))>> ELSE <<>>))

\* main once listAllObjects has returned keys
mainListed(s, keys) ==
    IF s.mode = "dry-run"
    THEN Log([s EXCEPT !.pc = "done"],
             <<"", "Files that would be updated:">>
                 \o [k \in 1..Len(keys) |-> "   - " \o keys[k]]
                 \o <<"", "Total: " \o ToString(Len(keys)) \o " files", "",
                      "Run without --dry-run to actually update the files.">>)
    ELSE IF Len(keys) = 0
    THEN Log([s EXCEPT !.pc = "done"], <<"No objects found in bucket">>)
    ELSE updateFilesBegun(s, keys)

\* main once listAllObjects has thrown: main().catch(console.error) of the
\* dry run, the catch of main otherwise, which leaves with process.exit(1)
mainThrown(s, error) ==
    IF s.mode = "dry-run"
    THEN Log([s EXCEPT !.pc = "done"], <<error>>)
    ELSE Log([s EXCEPT !.pc = "exited", !.exitCode = Some(1)], <<"Error: " \o error>>)

\* A key of a listing as the text a template literal makes of it
KeyText(key) == IF key.t = "str" THEN key.v ELSE "undefined"

\* The rest of a turn of the loop of listAllObjects, once client.list has
\* resolved with result
pageListed(s, result, allKeys, token) ==
    IF JsTruthy(token)
    THEN Log([s EXCEPT !.allKeys = allKeys, !.continuationToken = token],
             <<"   Found " \o ToString(Len(allKeys)) \o " objects so far...">>)
    ELSE mainListed(
             Log([s EXCEPT !.allKeys = allKeys, !.continuationToken = token,
                           !.listed = Some(allKeys)],
                 <<"   Found " \o ToString(Len(allKeys)) \o " objects so far...",
                   "Total objects found: " \o ToString(Len(allKeys))>>),
             [k \in 1..Len(allKeys) |-> KeyText(allKeys[k])])

\* { maxKeys: 1000, continuationToken }
PageOptions(token) ==
    [NoListOptions EXCEPT
        !.maxKeys = Some(1000),
        !.continuationToken = IF token.t = "str" THEN Some(token.v) ELSE None]

\* What the server answers to the listing after those it has answered
PageResponse(s) ==
    IF s.fetched < Len(s.server)
    THEN [ok |-> TRUE, status |-> 200, text |-> Render(s.server[s.fetched + 1]),
          body |-> <<>>]
    ELSE [ok |-> FALSE, status |-> 400, text |-> "InvalidArgument", body |-> <<>>]

\* One turn of the loop of listAllObjects: o is what client.list came to
listedPage(s, o) ==
    IF o.status = "rejected"
    THEN mainThrown(s, o.error)
    ELSE pageListed([s EXCEPT !.fetched = @ + o.requests], o.result[1],
                    s.allKeys \o [k \in 1..Len(o.result[1].objects) |->
                                     o.result[1].objects[k].key],
                    IF JsTruthy(o.result[1].isTruncated)
                    THEN o.result[1].nextContinuationToken
                    ELSE JsUndef)

listAllObjects ==
    /\ script.pc = "listing"
    /\ ListObjectsWith(Operation("list", bucketName, "", NoData,
                                 Some(PageOptions(script.continuationToken)), None),
                       bucketName, QueryString(PageOptions(script.continuationToken)),
                       Spread(CallerHeap(PageOptions(script.continuationToken)),
                              "customHeaders", "headers"),
                       PageResponse(script))
    /\ script' = listedPage(script, ops'[Len(ops')])
    /\ UNCHANGED <<now, client, inflight, listing>>

\* updateFileMetadata: true when client.updateMetadata resolves, false, with
\* a line written, when it rejects
updateFileMetadata(o) == o.status = "resolved"

\* Faulty variant of Counted: a key that fails ends the loop.
CountedUntilFailure(s, result) ==
    IF result
    THEN [s EXCEPT !.success = @ + 1, !.pc = "waiting"]
    ELSE [s EXCEPT !.failed = @ + 1, !.pc = "updated",
                   !.updated = Some([success |-> s.success, failed |-> s.failed + 1])]

\* The turn of the loop of updateFiles for keys[i], up to its delay: result
\* is what updateFileMetadata returned
Counted(s, result) ==
    IF result
    THEN Log([s EXCEPT !.success = @ + 1, !.pc = "waiting"],
             <<"   [" \o ToString(s.i + 1) \o "/" \o ToString(Len(s.keys)) \o "] "
                   \o s.keys[s.i + 1]>>)
    ELSE Log([s EXCEPT !.failed = @ + 1, !.pc = "waiting"],
             <<"   [" \o ToString(s.i + 1) \o "/" \o ToString(Len(s.keys)) \o "] "
                   \o s.keys[s.i + 1]>>)

updatedFile(s, o) ==
    Counted(IF updateFileMetadata(o)
            THEN s
            ELSE Log(s, <<"   Failed: " \o s.keys[s.i + 1] \o " " \o o.error>>),
            updateFileMetadata(o))

updateFiles ==
    /\ script.pc = "updating"
    /\ UpdateObject(Operation("updateMetadata", bucketName, script.keys[script.i + 1],
                              NoData, Some([cacheControl |-> Some(ONE_YEAR_CACHE)]),
                              Some([bucket |-> bucketName,
                                    key |-> script.keys[script.i + 1]])),
                    bucketName, script.keys[script.i + 1],
                    ReplaceDirective(CallerHeap([cacheControl |-> Some(ONE_YEAR_CACHE)])))
    /\ script' = updatedFile(script, ops'[Len(ops')])
    /\ UNCHANGED <<now, client, inflight, listing>>

\* await new Promise(resolve => setTimeout(resolve, 50)), i++, and the test
\* of the loop
RateLimitDelay == 50

delayed(s) ==
    IF s.i + 1 < Len(s.keys)
    THEN [s EXCEPT !.i = @ + 1, !.pc = "updating"]
    ELSE [s EXCEPT !.i = @ + 1, !.pc = "updated",
                   !.updated = Some([success |-> s.success, failed |-> s.failed])]

delay ==
    /\ script.pc = "waiting"
    /\ now' = AddMs(now, RateLimitDelay)
    /\ script' = delayed(script)
    /\ UNCHANGED <<oracle, calls, console, client, ops, http, inflight, listing>>

\* main once updateFiles has returned
mainUpdated ==
    /\ script.pc = "updated"
    /\ script' = Summary(script, script.updated[1], script.mode = "all")
    /\ UNCHANGED <<now, oracle, calls, console, client, ops, http, inflight, listing>>

NextScript ==
    \/ main
    \/ listAllObjects
    \/ updateFiles
    \/ delay
    \/ mainUpdated

SpecScript == InitScript /\ [][NextScript]_vars

(***************************************************************************)
(* The claims on the script.                                               *)
(***************************************************************************)
\* A page after which listAllObjects stops, and the first one of a server
FinalPage(page) == page.isTruncated # Some(TRUE) \/ page.token = None
FirstFinal(server) ==
    CHOOSE k \in 1..Len(server) :
        FinalPage(server[k]) /\ \A m \in 1..(k - 1) : ~FinalPage(server[m])

RECURSIVE KeysOfPages(_, _)

KeysOfPages(server, n) ==
    IF n = 0 THEN <<>>
    ELSE KeysOfPages(server, n - 1)
             \o [k \in 1..Len(server[n].keys) |-> JsStr(server[n].keys[k])]

IsListing(o) == o.op = "list"
ListOps == SelectSeq(ops, IsListing)

\* C28: once listAllObjects is over, it has asked for the pages one after
\* the other up to the first page that is not truncated or has no token,
\* each once, the first without a token and each later one with the token of
\* the page before, and it has returned the keys of those pages in the order
\* of the pages.
C28_ListsEveryPage ==
    (script.mode \in {"dry-run", "all"} /\ script.pc \notin {"main", "listing"}) =>
        /\ Len(ListOps) = FirstFinal(script.server)
        /\ \A k \in 1..Len(ListOps) :
               ListOps[k].options[1].continuationToken
                   = IF k = 1 THEN None ELSE script.server[k - 1].token
        /\ script.listed = Some(KeysOfPages(script.server, FirstFinal(script.server)))

IsUpdate(o) == o.op = "updateMetadata"
RefusedOrThrown(o) == o.status = "rejected"
UpdateOps == SelectSeq(ops, IsUpdate)

\* C29: updateFiles calls updateMetadata for the keys it is given in their
\* order, each once and one at a time; success + failed is at every point
\* the number of keys it has processed, failed the number of those whose
\* update was rejected; a rejected update does not end the loop, and what
\* updateFiles returns are counts whose sum is the number of keys given.
C29_EveryKeyCounted ==
    /\ script.success + script.failed = Len(UpdateOps)
    /\ [k \in 1..Len(UpdateOps) |-> UpdateOps[k].key]
           = SubSeq(script.keys, 1, Len(UpdateOps))
    /\ script.failed = Len(SelectSeq(UpdateOps, RefusedOrThrown))
    /\ script.pc = "updating" => Len(UpdateOps) = script.i
    /\ script.pc = "waiting" => Len(UpdateOps) = script.i + 1
    /\ script.updated # None =>
           /\ script.updated[1] = [success |-> script.success, failed |-> script.failed]
           /\ script.success + script.failed = Len(script.keys)

\* updateFiles has returned for three keys, the update of the first of which
\* was rejected, and has processed the two after it.
C29_Witness ==
    /\ script.updated # None
    /\ Len(script.keys) = 3
    /\ Len(UpdateOps) = 3
    /\ UpdateOps[1].status = "rejected"
    /\ script.failed >= 1

====
